---- MODULE Spec2Model ----
(***************************************************************************)
(* Model of the sgmm-api graph engine: the tree filters and the node       *)
(* lookup of GraphService (app/services/graph_service.py), the graph       *)
(* synthesis of RAGService (app/services/rag_service.py) and the records   *)
(* GraphService.generate_graph_for_query writes (app/models/db_models.py). *)
(*                                                                         *)
(* Python dict nodes are objects: the model keeps them in a heap, a        *)
(* sequence of node records addressed by their index, with the children of *)
(* a node a sequence of addresses.  A dict copy allocates a new object, an *)
(* item assignment rewrites one object of the heap.                        *)
(***************************************************************************)
EXTENDS Integers, Sequences, FiniteSets, TLC

VARIABLES
    heap,       \* the Python objects of the request: Seq of node records
    input,      \* the heap as the request found it (history, never written)
    call,       \* the last service call: [name |-> ..., ...its arguments]
    result,     \* what that call returned
    queries,    \* the queries collection: Seq of [query_text, status, graph_id]
    graphs,     \* the graphs collection: Seq of [query_id, graph_data]
    connections,\* the connections collection: Seq of [graph_id, connection]
    req         \* the generate_graph_for_query invocation in progress

store == <<queries, graphs, connections, req>>

vars == <<heap, input, call, result, queries, graphs, connections, req>>

\* ------------------------------------------------------------------ bounds

\* Largest number of nodes of an enumerated input tree.
MaxNodes == 3

\* Largest layer value an enumerated node carries (the data model allows 0..4).
MaxLayerVal == 2

\* Number of query records a behaviour creates.
MaxQueries == 1

\* ------------------------------------------------------------- heap, trees

\* Python's None, where an address is expected.
Null == 0

\* Python's None, where a record is expected.
NoneVal == [none |-> TRUE]

Root == 1

\* No generate_graph_for_query invocation in progress.  query_id and
\* graph_id are positions in their collections, 0 for None.
IdleReq ==
    [pc |-> "idle", query_text |-> "", query_id |-> 0, graph_data |-> [type |-> "null"],
     connections |-> [type |-> "null"], graph_id |-> 0, i |-> 0,
     ret |-> [query_id |-> 0, graph_id |-> 0, raised |-> FALSE]]

NodeNames == <<"n1", "n2", "n3", "n4", "n5", "n6">>

NodeTitles == <<<<"t1">>, <<"t2">>, <<"t3">>, <<"t4">>, <<"t5">>, <<"t6">>>>

\* A GraphNode dict, its children a sequence of heap addresses, its title
\* and description texts (sequences of atoms).
GraphNode(id, title, layer, relevance, children, examples) ==
    [id |-> id, title |-> title, description |-> <<"d">>, layer |-> layer,
     relevance |-> relevance, children |-> children, examples |-> examples]

\* The ordered sequence of the elements i of 1..n with parent[i] = a.
ChildrenOf(parent, n, a) ==
    SelectSeq([i \in 1..n |-> i], LAMBDA i : i > 1 /\ parent[i] = a)

\* The tree shapes on n nodes: node 1 is the root, every other node hangs
\* under a node of smaller index, siblings ordered by index.
Shapes(n) == {p \in [1..n -> 0..n] : p[1] = 0 /\ \A i \in 2..n : p[i] \in 1..(i - 1)}

RECURSIVE DepthIn(_, _)
DepthIn(parent, i) == IF parent[i] = 0 THEN 0 ELSE 1 + DepthIn(parent, parent[i])

\* Id assignments up to renaming (restricted growth): ids may repeat.
IdPatterns(n) ==
    {f \in [1..n -> 1..n] :
        /\ f[1] = 1
        /\ \A i \in 2..n : \E j \in 1..(i - 1) : f[i] <= f[j] + 1}

Min(a, b) == IF a < b THEN a ELSE b

\* The heap of a freshly loaded tree of shape p: node i at address i.
MakeTree(n, p, ids, layers, rels) ==
    [i \in 1..n |-> GraphNode(ids[i], NodeTitles[i], layers[i], rels[i],
                              ChildrenOf(p, n, i), <<>>)]

UniqueIdsOf(n) == [i \in 1..n |-> NodeNames[i]]

DepthLayers(n, p) == [i \in 1..n |-> Min(DepthIn(p, i), 4)]

TopRelevance(n) == [i \in 1..n |-> 10]

\* Relevance values of the enumerated nodes (the data model allows 1..10).
RelevanceVals == {3, 5, 7, 10}

\* Trees that differ in their ids (repeats included).
IdTrees ==
    UNION {UNION {{MakeTree(n, p, [i \in 1..n |-> NodeNames[f[i]]], DepthLayers(n, p),
                            TopRelevance(n)) : f \in IdPatterns(n)} :
                  p \in Shapes(n)} : n \in 1..MaxNodes}

\* Trees that differ in their layers: nothing makes a child's layer exceed
\* its parent's (rag_service.py:204 stores what the model wrote).
LayerTrees ==
    UNION {UNION {{MakeTree(n, p, UniqueIdsOf(n), l, TopRelevance(n)) :
                      l \in [1..n -> 0..MaxLayerVal]} :
                  p \in Shapes(n)} : n \in 1..MaxNodes}

\* Trees that differ in their relevances.
RelevanceTrees ==
    UNION {UNION {{MakeTree(n, p, UniqueIdsOf(n), DepthLayers(n, p), r) :
                      r \in [1..n -> RelevanceVals]} :
                  p \in Shapes(n)} : n \in 1..MaxNodes}

\* A root whose children have relevances 10, 3 and 7, the relevance-3 child
\* with a relevance-9 child of its own.
ScenarioTree ==
    <<GraphNode("n1", <<"t1">>, 0, 10, <<2, 3, 5>>, <<>>),
      GraphNode("n2", <<"t2">>, 1, 10, <<>>, <<>>),
      GraphNode("n3", <<"t3">>, 1, 3, <<4>>, <<>>),
      GraphNode("n4", <<"t4">>, 2, 9, <<>>, <<>>),
      GraphNode("n5", <<"t5">>, 1, 7, <<>>, <<>>)>>

\* Examples a stored node carries: none, or one the generator wrote inline.
InlineExamples ==
    {<<>>, <<[title |-> <<"Mayo", " ", "Clinic">>,
              description |-> <<"They", " ", "restructured", ".">>]>>}

\* Trees that differ in the examples their nodes carry.
ExampleTrees ==
    UNION {UNION {{[i \in 1..n |->
                      [MakeTree(n, p, UniqueIdsOf(n), DepthLayers(n, p), TopRelevance(n))[i]
                          EXCEPT !.examples = e[i]]] :
                      e \in [1..n -> InlineExamples]} :
                  p \in Shapes(n)} : n \in 1..MaxNodes}

\* A node of the fallback tree, with its own description.
FallbackNode(id, title, description, layer, relevance, children) ==
    [GraphNode(id, <<title>>, layer, relevance, children, <<>>)
        EXCEPT !.description = <<description>>]

\* The tree of RAGService._generate_fallback_graph(query) as a request
\* loads it, node after node in the order of the literal.
FallbackTree ==
    <<FallbackNode("root", "How to grow?",
                   "Decision analysis based on the St. Gallen Management Model",
                   0, 10, <<2, 5, 8, 11>>),
      FallbackNode("env_analysis", "Environmental & Stakeholder Analysis",
                   "Analysis of external factors and stakeholders", 1, 8, <<3, 4>>),
      FallbackNode("external_factors", "External Factors",
                   "Consider technological, economic, and social influences", 2, 7, <<>>),
      FallbackNode("stakeholders", "Stakeholder Mapping",
                   "Identify and analyze key stakeholders", 2, 7, <<>>),
      FallbackNode("strategy", "Strategy & Business Model",
                   "Strategic considerations and business model design", 1, 9, <<6, 7>>),
      FallbackNode("value_prop", "Value Proposition",
                   "Define the unique value offering", 2, 8, <<>>),
      FallbackNode("comp_advantage", "Competitive Advantage",
                   "Identify sustainable competitive advantages", 2, 8, <<>>),
      FallbackNode("organization", "Organizational Structure & Processes",
                   "Internal organizational considerations", 1, 7, <<9, 10>>),
      FallbackNode("structure", "Organizational Structure",
                   "Design appropriate organizational structures", 2, 6, <<>>),
      FallbackNode("processes", "Management Processes",
                   "Establish effective management processes", 2, 6, <<>>),
      FallbackNode("implementation", "Implementation & Development",
                   "Approaches to implementation and change management", 1, 8, <<12, 13>>),
      FallbackNode("change_mgmt", "Change Management",
                   "Manage organizational change effectively", 2, 7, <<>>),
      FallbackNode("implementation", "Implementation Approach",
                   "Plan the implementation strategy", 2, 7, <<>>)>>

InputTrees ==
    IdTrees \cup LayerTrees \cup RelevanceTrees \cup ExampleTrees \cup
        {ScenarioTree, FallbackTree}

\* --------------------------------------------------------- reading a heap

RECURSIVE Preorder(_, _)
RECURSIVE PreorderAll(_, _)
\* The addresses of the tree under a, depth-first, pre-order.
Preorder(h, a) == <<a>> \o PreorderAll(h, h[a].children)
PreorderAll(h, kids) ==
    IF kids = <<>> THEN <<>> ELSE Preorder(h, Head(kids)) \o PreorderAll(h, Tail(kids))

Range(s) == {s[i] : i \in DOMAIN s}

NodesUnder(h, a) == Range(Preorder(h, a))

RECURSIVE TreeValue(_, _)
\* The tree under a as a value (what json.dumps would write): children nested.
TreeValue(h, a) ==
    [h[a] EXCEPT !.children = [i \in DOMAIN h[a].children |-> TreeValue(h, h[a].children[i])]]

\* ------------------------------------------------------- the tree filters

\* dict.get(key, default)
Get(d, key, default) == IF key \in DOMAIN d THEN d[key] ELSE default

\* `"children" in node and node["children"]`
HasChildren(d) == "children" \in DOMAIN d /\ d.children # <<>>

\* CopyNode without the copy: `filtered_node = node`.
CopyNodeAlias(h, node) == [heap |-> h, ref |-> node]

\* dict.copy(): a new object with the same items (the children list shared).
CopyNode(h, node) == [heap |-> Append(h, h[node]), ref |-> Len(h) + 1]

\* d["children"] = kids
SetChildren(h, d, kids) == [h EXCEPT ![d].children = kids]

\* `if filtered_child:` a dict is true unless it is None or has no item; a
\* node copy always has items.
Truthy(ref) == ref # Null

RECURSIVE filter_graph_by_layer(_, _, _)
RECURSIVE FilterChildrenByLayer(_, _, _, _)
\* _filter_graph_by_layer with the test `current_layer >= target_layer`.
filter_graph_by_layer_ge(h, node, target_layer) ==
    LET c == CopyNode(h, node)
    IN  IF Get(h[node], "layer", 0) >= target_layer
        THEN [heap |-> c.heap, ret |-> Null]
        ELSE IF HasChildren(c.heap[node])
             THEN LET r == FilterChildrenByLayer(c.heap, c.heap[node].children,
                                                 target_layer, <<>>)
                  IN  [heap |-> SetChildren(r.heap, c.ref, r.kept), ret |-> c.ref]
             ELSE [heap |-> c.heap, ret |-> c.ref]

\* _filter_graph_by_layer with the test inverted: `current_layer < target_layer`.
filter_graph_by_layer_lt(h, node, target_layer) ==
    LET c == CopyNode(h, node)
    IN  IF Get(h[node], "layer", 0) < target_layer
        THEN [heap |-> c.heap, ret |-> Null]
        ELSE IF HasChildren(c.heap[node])
             THEN LET r == FilterChildrenByLayer(c.heap, c.heap[node].children,
                                                 target_layer, <<>>)
                  IN  [heap |-> SetChildren(r.heap, c.ref, r.kept), ret |-> c.ref]
             ELSE [heap |-> c.heap, ret |-> c.ref]

\* The children loop stopping one child early.
FilterChildrenByLayerSkipLast(h, children, target_layer, filtered_children) ==
    IF Len(children) <= 1
    THEN [heap |-> h, kept |-> filtered_children]
    ELSE LET r == filter_graph_by_layer(h, Head(children), target_layer)
         IN  FilterChildrenByLayer(r.heap, Tail(children), target_layer,
                 IF Truthy(r.ret) THEN Append(filtered_children, r.ret)
                 ELSE filtered_children)

\* GraphService._filter_graph_by_layer: [heap |-> the heap after the call,
\* ret |-> the address returned or Null].
filter_graph_by_layer(h, node, target_layer) ==
    LET c == CopyNode(h, node)
        filtered_node == c.ref
        current_layer == Get(h[node], "layer", 0)
    IN  IF current_layer > target_layer
        THEN [heap |-> c.heap, ret |-> Null]
        ELSE IF HasChildren(c.heap[node])
             THEN LET r == FilterChildrenByLayer(c.heap, c.heap[node].children,
                                                 target_layer, <<>>)
                  IN  [heap |-> SetChildren(r.heap, filtered_node, r.kept),
                       ret |-> filtered_node]
             ELSE [heap |-> c.heap, ret |-> filtered_node]

\* The loop of _filter_graph_by_layer over node["children"].
FilterChildrenByLayer(h, children, target_layer, filtered_children) ==
    IF children = <<>>
    THEN [heap |-> h, kept |-> filtered_children]
    ELSE LET r == filter_graph_by_layer(h, Head(children), target_layer)
         IN  FilterChildrenByLayer(r.heap, Tail(children), target_layer,
                 IF Truthy(r.ret) THEN Append(filtered_children, r.ret)
                 ELSE filtered_children)

RECURSIVE filter_graph_by_relevance(_, _, _)
RECURSIVE FilterChildrenByRelevance(_, _, _, _)
\* GraphService._filter_graph_by_relevance.
filter_graph_by_relevance(h, node, min_relevance) ==
    LET c == CopyNode(h, node)
        filtered_node == c.ref
        relevance == Get(h[node], "relevance", 0)
    IN  IF relevance < min_relevance
        THEN [heap |-> c.heap, ret |-> Null]
        ELSE IF HasChildren(c.heap[node])
             THEN LET r == FilterChildrenByRelevance(c.heap, c.heap[node].children,
                                                     min_relevance, <<>>)
                  IN  [heap |-> SetChildren(r.heap, filtered_node, r.kept),
                       ret |-> filtered_node]
             ELSE [heap |-> c.heap, ret |-> filtered_node]

\* The loop of _filter_graph_by_relevance over node["children"].
FilterChildrenByRelevance(h, children, min_relevance, filtered_children) ==
    IF children = <<>>
    THEN [heap |-> h, kept |-> filtered_children]
    ELSE LET r == filter_graph_by_relevance(h, Head(children), min_relevance)
         IN  FilterChildrenByRelevance(r.heap, Tail(children), min_relevance,
                 IF Truthy(r.ret) THEN Append(filtered_children, r.ret)
                 ELSE filtered_children)

\* `min_relevance = 5  # Default minimum relevance threshold`
DefaultMinRelevance == 5

\* `if context_params`: None and the empty dict are false.
TruthyDict(d) == d # NoneVal /\ DOMAIN d # {}

\* The decimal digits.
Digits == <<"0", "1", "2", "3", "4", "5", "6", "7", "8", "9">>

IsDigit(c) == \E d \in DOMAIN Digits : Digits[d] = c

DigitValue(c) == (CHOOSE d \in DOMAIN Digits : Digits[d] = c) - 1

RECURSIVE DigitsValue(_, _)
\* The number a digit string reads as, left to right from acc.
DigitsValue(chars, acc) ==
    IF chars = <<>> THEN acc
    ELSE DigitsValue(Tail(chars), acc * 10 + DigitValue(Head(chars)))

\* int(v) for v an integer [kind |-> "int", n |-> ..] or a string
\* [kind |-> "str", chars |-> ..]: [ok |-> FALSE] stands for the ValueError
\* int raises on a string that is not a numeral.
PyInt(v) ==
    IF v.kind = "int" THEN [ok |-> TRUE, n |-> v.n]
    ELSE IF v.chars # <<>> /\ \A i \in DOMAIN v.chars : IsDigit(v.chars[i])
         THEN [ok |-> TRUE, n |-> DigitsValue(v.chars, 0)]
         ELSE [ok |-> FALSE, n |-> 0]

\* get_filtered_graph reading the wrong key: the default always applies.
get_filtered_graph_default(h, graph_data, context_params) ==
    IF graph_data = Null
    THEN [heap |-> h, ret |-> Null]
    ELSE filter_graph_by_relevance(h, graph_data, DefaultMinRelevance)

\* GraphService.get_filtered_graph: graph_data is what get_graph returned
\* (Null when the graph id does not resolve).  An exception, here the
\* ValueError of int(), makes it return None.
get_filtered_graph(h, graph_data, context_params) ==
    IF graph_data = Null
    THEN [heap |-> h, ret |-> Null]
    ELSE IF TruthyDict(context_params) /\ "min_relevance" \in DOMAIN context_params
         THEN LET min_relevance == PyInt(context_params.min_relevance)
              IN  IF min_relevance.ok
                  THEN filter_graph_by_relevance(h, graph_data, min_relevance.n)
                  ELSE [heap |-> h, ret |-> Null]
         ELSE filter_graph_by_relevance(h, graph_data, DefaultMinRelevance)

\* ------------------------------------------------------------------- text
\* A str is a sequence of atoms: a word, or one character of white space or
\* punctuation.  No atom holds white space, ":" or "." inside a word, and
\* the only atom spelling "Example" is "Example" itself.

\* Python's white space (str.split, str.strip, the regex class \s).
IsSpace(c) == c \in {" ", "\n", "\t", "\r"}

\* The regex class [\n\r].
IsNewline(c) == c \in {"\n", "\r"}

\* str.lower() of one atom.
LowerAtom(c) ==
    CASE c = "Apple" -> "apple"
      [] c = "Example" -> "example"
      [] c = "Case" -> "case"
      [] OTHER -> c

\* str.lower()
Lower(text) == [i \in DOMAIN text |-> LowerAtom(text[i])]

RECURSIVE LStrip(_)
LStrip(text) ==
    IF text # <<>> /\ IsSpace(Head(text)) THEN LStrip(Tail(text)) ELSE text

RECURSIVE RStrip(_)
RStrip(text) ==
    IF text # <<>> /\ IsSpace(text[Len(text)])
    THEN RStrip(SubSeq(text, 1, Len(text) - 1))
    ELSE text

\* str.strip()
Strip(text) == RStrip(LStrip(text))

RECURSIVE SplitWords(_, _, _)
\* str.split(): the maximal runs of atoms that are not white space.
SplitWords(text, word, words) ==
    IF text = <<>>
    THEN IF word = <<>> THEN words ELSE Append(words, word)
    ELSE IF IsSpace(Head(text))
         THEN SplitWords(Tail(text), <<>>, IF word = <<>> THEN words ELSE Append(words, word))
         ELSE SplitWords(Tail(text), Append(word, Head(text)), words)

Split(text) == SplitWords(text, <<>>, <<>>)

\* Whether sep occurs in text at position i (1-based).
OccursAt(text, sep, i) ==
    /\ i + Len(sep) - 1 <= Len(text)
    /\ \A k \in 1..Len(sep) : text[i + k - 1] = sep[k]

\* The first position >= i at which sep occurs in text, 0 if there is none.
FindSep(text, sep, i) ==
    LET at == {k \in i..Len(text) : OccursAt(text, sep, k)}
    IN  IF at = {} THEN 0 ELSE CHOOSE k \in at : \A k2 \in at : k <= k2

RECURSIVE SplitOn(_, _, _)
\* text split at the occurrence of sep at position k, if there is one.
SplitAt(text, sep, maxsplit, k) ==
    IF maxsplit = 0 \/ k = 0
    THEN <<text>>
    ELSE <<SubSeq(text, 1, k - 1)>> \o
         SplitOn(SubSeq(text, k + Len(sep), Len(text)), sep, maxsplit - 1)

\* str.split(sep, maxsplit); maxsplit -1 for no limit.
SplitOn(text, sep, maxsplit) == SplitAt(text, sep, maxsplit, FindSep(text, sep, 1))

\* `sub in text`, for sub one of the atoms.
Contains(text, sub) == \E i \in DOMAIN text : text[i] = sub

\* round(numerator / denominator, 2), in hundredths.  The quotient of two
\* small integers is a tie between two hundredths only when the denominator
\* is a multiple of 8, and then the float is exact and rounds to even.
Round2(numerator, denominator) ==
    LET q == (100 * numerator) \div denominator
        twice == 2 * ((100 * numerator) % denominator)
    IN  IF twice < denominator THEN q
        ELSE IF twice > denominator THEN q + 1
        ELSE IF q % 2 = 0 THEN q ELSE q + 1

\* ------------------------------------------------ scoring and extraction

\* `return 0.5` and `round(intersection / union, 2)`, in hundredths.
Similarity(intersection, union) ==
    IF union = 0 THEN 50 ELSE Round2(intersection, union)

\* The Jaccard similarity of two sets of terms.
Jaccard(query_terms, node_terms) ==
    Similarity(Cardinality(query_terms \cap node_terms),
               Cardinality(query_terms \cup node_terms))

\* _calculate_relevance reading the description alone.
calculate_relevance_description(title, description, query) ==
    Jaccard(Range(Split(Lower(query))), Range(Split(Lower(description))))

\* NodeChatService._calculate_relevance, the score in hundredths.
calculate_relevance(title, description, query) ==
    Jaccard(Range(Split(Lower(query))),
            Range(Split(Lower(title \o <<" ">> \o description))))

\* The number of atoms from position i on that are white space.
RECURSIVE SpaceRun(_, _)
SpaceRun(text, i) ==
    IF i <= Len(text) /\ IsSpace(text[i]) THEN 1 + SpaceRun(text, i + 1) ELSE 0

\* The number of atoms from position i on that are in [\n\r].
RECURSIVE NewlineRun(_, _)
NewlineRun(text, i) ==
    IF i <= Len(text) /\ IsNewline(text[i]) THEN 1 + NewlineRun(text, i + 1) ELSE 0

NoMatch == [ok |-> FALSE]

\* Backtracking: the match m if it is one, the next alternative if not.
OrElse(m, alternative) == IF m.ok THEN m ELSE alternative

\* The lookahead (?=Example|$) at position i; with re.MULTILINE `$` holds
\* at the end of the text and before every "\n".
Lookahead(text, i) ==
    \/ i = Len(text) + 1
    \/ i <= Len(text) /\ text[i] \in {"Example", "\n"}

\* ([\s\S]+?)(?=Example|$) from position b: the end of the shortest body of
\* one atom or more after which the lookahead holds, 0 if there is no atom.
MatchBody(text, b) ==
    IF b > Len(text)
    THEN 0
    ELSE CHOOSE e \in (b + 1)..(Len(text) + 1) :
             /\ Lookahead(text, e)
             /\ \A e2 \in (b + 1)..(e - 1) : ~Lookahead(text, e2)

\* The groups of a match: the title from q to the newlines at a, the body
\* from b to the end e of the match; no match for e = 0.
Groups(q, a, b, e) ==
    IF e = 0
    THEN NoMatch
    ELSE [ok |-> TRUE, title |-> q, newlines |-> a, body |-> b, end |-> e]

RECURSIVE MatchNewlines(_, _, _, _)
\* [\n\r]+ from position a, greedy: n atoms, then fewer while the rest fails.
MatchNewlines(text, q, a, n) ==
    IF n = 0
    THEN NoMatch
    ELSE OrElse(Groups(q, a, a + n, MatchBody(text, a + n)),
                MatchNewlines(text, q, a, n - 1))

RECURSIVE MatchTitle(_, _, _)
\* (.+?) from position q, lazy: len atoms other than "\n", then more while
\* the rest fails.
MatchTitle(text, q, len) ==
    IF q + len - 1 > Len(text) \/ text[q + len - 1] = "\n"
    THEN NoMatch
    ELSE OrElse(MatchNewlines(text, q, q + len, NewlineRun(text, q + len)),
                MatchTitle(text, q, len + 1))

RECURSIVE MatchSpace(_, _, _)
\* \s* from position p, greedy: n atoms, then fewer while the rest fails.
MatchSpace(text, p, n) ==
    OrElse(MatchTitle(text, p + n, 1),
           IF n = 0 THEN NoMatch ELSE MatchSpace(text, p, n - 1))

\* :?\s* from position p, greedy: with the colon, then without.
MatchColon(text, p) ==
    OrElse(IF p <= Len(text) /\ text[p] = ":"
           THEN MatchSpace(text, p + 1, SpaceRun(text, p + 1))
           ELSE NoMatch,
           MatchSpace(text, p, SpaceRun(text, p)))

\* The pattern Example:?\s*(.+?)[\n\r]+([\s\S]+?)(?=Example|$) at position s.
MatchAt(text, s) ==
    IF s > Len(text) \/ text[s] # "Example" THEN NoMatch ELSE MatchColon(text, s + 1)

RECURSIVE Search(_, _)
\* The leftmost match that starts at pos or later.
Search(text, pos) ==
    IF pos > Len(text) THEN NoMatch ELSE OrElse(MatchAt(text, pos), Search(text, pos + 1))

RECURSIVE FindIter(_, _)
\* m and the matches after it.
MatchesFrom(text, m) == IF m.ok THEN <<m>> \o FindIter(text, m.end) ELSE <<>>

\* re.finditer(pattern, text, re.MULTILINE) from position pos: the matches
\* left to right, each search starting where the last match ended.
FindIter(text, pos) == MatchesFrom(text, Search(text, pos))

\* title.split(":", 1) and what is made of its parts.
TitleParts(parts, description) ==
    [title |-> Strip(parts[1]),
     description |-> Strip(parts[2]) \o <<" ">> \o description]

\* The dict appended for a stripped title and description.
ExampleDict(title, description) ==
    IF Contains(title, ":") /\ ~OccursAt(title, <<"Example", ":">>, 1)
    THEN TitleParts(SplitOn(title, <<":">>, 1), description)
    ELSE [title |-> title, description |-> description]

\* The body of the loop over the matches: one example of a match.
ExampleOfMatch(text, m) ==
    ExampleDict(Strip(SubSeq(text, m.title, m.newlines - 1)),
                Strip(SubSeq(text, m.body, m.end - 1)))

ExamplesOfMatches(text, matches) ==
    [i \in DOMAIN matches |-> ExampleOfMatch(text, matches[i])]

\* The paragraph test of the simpler approach.
SeemsExample(para) ==
    \E w \in {"example", "case", "instance"} : Contains(Lower(para), w)

\* para.split(". ", 1) and what is made of the sentences.
SentenceParts(para, sentences) ==
    IF Len(sentences) > 1
    THEN [title |-> Strip(sentences[1]), description |-> Strip(sentences[2])]
    ELSE [title |-> <<"Example">>, description |-> Strip(para)]

\* The simpler approach: one example of a paragraph.
ExampleOfParagraph(para) == SentenceParts(para, SplitOn(para, <<".", " ">>, 1))

RECURSIVE ExamplesOfParagraphs(_)
ExamplesOfParagraphs(paragraphs) ==
    IF paragraphs = <<>>
    THEN <<>>
    ELSE (IF SeemsExample(Head(paragraphs))
          THEN <<ExampleOfParagraph(Head(paragraphs))>>
          ELSE <<>>) \o ExamplesOfParagraphs(Tail(paragraphs))

\* `if not examples:` the simpler approach over the paragraphs.
ExamplesOrParagraphs(text, examples) ==
    IF examples = <<>>
    THEN ExamplesOfParagraphs(SplitOn(text, <<"\n", "\n">>, 0 - 1))
    ELSE examples

\* GraphService._extract_examples
extract_examples(text) ==
    ExamplesOrParagraphs(text, ExamplesOfMatches(text, FindIter(text, 1)))

\* NodeChatService._extract_examples: the same statements.
chat_extract_examples(text) == extract_examples(text)

\* ---------------------------------------------------------- related nodes

RECURSIVE search_graph(_, _, _, _, _, _, _)
RECURSIVE SearchChildren(_, _, _, _, _, _, _)
\* `if found and level > 0:` the node appended with its score.
AddRelated(node, query, level, found, related_nodes) ==
    IF found /\ level > 0
    THEN Append(related_nodes,
                [id |-> node.id, title |-> node.title,
                 relevance |-> calculate_relevance(node.title, node.description, query)])
    ELSE related_nodes

\* `# Process children`
ProcessChildren(h, node_id, query, node, level, found, related_nodes) ==
    IF HasChildren(h[node])
    THEN SearchChildren(h, node_id, query, h[node].children, level, found, related_nodes)
    ELSE related_nodes

\* The helper search_graph of _find_related_nodes: related_nodes after the
\* call.  At the target `found = True` binds the local of that call, which
\* returns at once; the children are searched with the caller's found.
search_graph(h, node_id, query, node, level, found, related_nodes) ==
    IF h[node].id = node_id
    THEN related_nodes
    ELSE ProcessChildren(h, node_id, query, node, level, found,
                         AddRelated(h[node], query, level, found, related_nodes))

SearchChildren(h, node_id, query, children, level, found, related_nodes) ==
    IF children = <<>>
    THEN related_nodes
    ELSE SearchChildren(h, node_id, query, Tail(children), level, found,
             search_graph(h, node_id, query, Head(children), level + 1, found,
                          related_nodes))

\* One step of the stable sort: x goes behind the entries that score as
\* much or more.
InsertByRelevance(sorted, x) ==
    LET k == Cardinality({i \in DOMAIN sorted : sorted[i].relevance >= x.relevance})
    IN  SubSeq(sorted, 1, k) \o <<x>> \o SubSeq(sorted, k + 1, Len(sorted))

RECURSIVE SortByRelevance(_, _)
\* list.sort(key=relevance, reverse=True)
SortByRelevance(list, sorted) ==
    IF list = <<>>
    THEN sorted
    ELSE SortByRelevance(Tail(list), InsertByRelevance(sorted, Head(list)))

\* related_nodes[:3]
FirstThree(related_nodes) == SubSeq(related_nodes, 1, Min(3, Len(related_nodes)))

\* NodeChatService._find_related_nodes
find_related_nodes(h, graph, node_id, query) ==
    FirstThree(SortByRelevance(search_graph(h, node_id, query, graph, 0, FALSE, <<>>), <<>>))

\* ----------------------------------------------------------- node lookup

\* GraphService._generate_default_examples: the two f-strings as their
\* literal segments around the title.
generate_default_examples(concept_title) ==
    <<[title |-> <<"Generic", " ", "Application">>,
       description |-> <<"Organizations typically apply ">> \o concept_title \o
                       <<" by integrating it into their strategic planning process to ensure alignment with business objectives.">>],
      [title |-> <<"Implementation", " ", "Example">>,
       description |-> <<"A medium-sized technology company implemented ">> \o concept_title \o
                       <<" to improve their management structure and decision-making processes.">>]>>

\* A chat-completion call made, with its outcome: create() raises
\* ("raises"), the message content is None ("none"), or is a str ("text").
Completion(kind, content) == [kind |-> kind, content |-> content]

\* generate_examples_for_node without its first test: it always asks.
generate_examples_for_node_uncached(node, completion) ==
    LET title == Get(node, "title", <<>>)
    IN  IF completion.kind = "text"
        THEN [examples |-> extract_examples(completion.content), called |-> TRUE]
        ELSE [examples |-> generate_default_examples(title), called |-> TRUE]

\* GraphService.generate_examples_for_node: [examples |-> the list
\* returned, called |-> whether the completion call was made].  A content
\* of None makes re.finditer raise inside the inner try, as create() does.
generate_examples_for_node(node, completion) ==
    IF "examples" \in DOMAIN node /\ node.examples # <<>>
    THEN [examples |-> node.examples, called |-> FALSE]
    ELSE LET title == Get(node, "title", <<>>)
         IN  IF completion.kind = "text"
             THEN [examples |-> extract_examples(completion.content), called |-> TRUE]
             ELSE [examples |-> generate_default_examples(title), called |-> TRUE]

\* The node_info dict with the examples e generated for it.
NodeInfoWith(node, path, level, e) ==
    [ret |-> [node |-> node, path |-> path, level |-> level, examples |-> e.examples],
     called |-> e.called]

\* The node_info dict of extract_node_details, with what the call did.
NodeInfo(h, node, path, level, completion) ==
    NodeInfoWith(node, path, level, generate_examples_for_node(h[node], completion))

\* `if result: return result`, the loop going on otherwise.
FirstResult(r, rest) == IF r.ret # NoneVal THEN r ELSE rest

NoNodeInfo == [ret |-> NoneVal, called |-> FALSE]

RECURSIVE find_node(_, _, _, _, _, _)
RECURSIVE FindInChildren(_, _, _, _, _, _, _)
\* find_node searching the children of a node before testing the node.
find_node_children_first(h, node_id, completion, current_node, path, level) ==
    FirstResult(IF HasChildren(h[current_node])
                THEN FindInChildren(h, node_id, completion, h[current_node].children,
                                    current_node, path, level)
                ELSE NoNodeInfo,
                IF h[current_node].id = node_id
                THEN NodeInfo(h, current_node, path \o <<current_node>>, level, completion)
                ELSE NoNodeInfo)

\* The helper find_node of GraphService.extract_node_details.
find_node(h, node_id, completion, current_node, path, level) ==
    IF h[current_node].id = node_id
    THEN NodeInfo(h, current_node, path \o <<current_node>>, level, completion)
    ELSE IF HasChildren(h[current_node])
         THEN FindInChildren(h, node_id, completion, h[current_node].children,
                             current_node, path, level)
         ELSE NoNodeInfo

\* The loop of find_node handing `path` on without current_node.
FindInChildrenShortPath(h, node_id, completion, children, current_node, path, level) ==
    IF children = <<>>
    THEN NoNodeInfo
    ELSE FirstResult(find_node(h, node_id, completion, Head(children), path, level + 1),
                     FindInChildren(h, node_id, completion, Tail(children),
                                    current_node, path, level))

\* The loop of find_node over current_node["children"]: the first child
\* whose search returns a result ends it.
FindInChildren(h, node_id, completion, children, current_node, path, level) ==
    IF children = <<>>
    THEN NoNodeInfo
    ELSE FirstResult(find_node(h, node_id, completion, Head(children),
                               path \o <<current_node>>, level + 1),
                     FindInChildren(h, node_id, completion, Tail(children),
                                    current_node, path, level))

\* GraphService.extract_node_details: [ret |-> node_info or None, called |->
\* whether a completion call was made].
extract_node_details(h, graph_data, node_id, completion) ==
    IF h[graph_data].id = node_id
    THEN NodeInfo(h, graph_data, <<graph_data>>, 0, completion)
    ELSE find_node(h, node_id, completion, graph_data, <<>>, 0)

\* ------------------------------------------------ inputs of the tree calls

\* target_layer values tried: one below and one above the layers in use.
LayerArgs == (0 - 1)..(MaxLayerVal + 1)

\* context_params values tried.
IntArg(n) == [kind |-> "int", n |-> n]

StrArg(chars) == [kind |-> "str", chars |-> chars]

\* min_relevance values tried: integers, numerals and a word.
MinRelevanceArgs ==
    {IntArg(k) : k \in 1..11} \cup {StrArg(<<"7">>), StrArg(<<"1", "0">>), StrArg(<<"h", "i">>)}

ContextParams ==
    {NoneVal, <<>>, [industry |-> "tech"]} \cup {[min_relevance |-> v] : v \in MinRelevanceArgs}

\* Replies to the examples prompt.
TextMayo ==
    <<"Example", ":", " ", "Mayo", " ", "Clinic", "\n", "They", " ", "restructured", ".">>

TextIBM == <<"Example", ":", " ", "IBM", "\n", "They", " ", "pivoted", ".">>

ExampleA == [title |-> <<"Mayo", " ", "Clinic">>,
             description |-> <<"They", " ", "restructured", ".">>]

ExampleB == [title |-> <<"IBM">>, description |-> <<"They", " ", "pivoted", ".">>]

\* Outcomes of the examples completion.
ExampleCompletions ==
    {Completion("raises", <<>>), Completion("none", <<>>)} \cup
    {Completion("text", t) : t \in {<<"Sorry", ".">>, TextMayo,
                                    TextMayo \o <<"\n", "\n">> \o TextIBM}}

\* The user's question to the chat.
ChatQueries == {<<"t2">>, <<"t3", " ", "d">>}

\* node ids asked for: the names in use, two of the fallback tree and one
\* no node carries.
NodeIdArgs ==
    {NodeNames[i] : i \in 1..MaxNodes} \cup {"implementation", "change_mgmt", "absent"}

\* ------------------------------------------- the tree calls, one at a time

InitTree ==
    /\ heap \in InputTrees
    /\ input = heap
    /\ call = [name |-> "init"]
    /\ result = NoneVal
    /\ queries = <<>>
    /\ graphs = <<>>
    /\ connections = <<>>
    /\ req = IdleReq

\* _filter_graph_by_layer(graph_data, target_layer) on the loaded tree.
FilterGraphByLayer(target_layer) ==
    /\ call.name = "init"
    /\ LET r == filter_graph_by_layer(heap, Root, target_layer)
       IN  /\ heap' = r.heap
           /\ result' = [ret |-> r.ret]
    /\ call' = [name |-> "filter_layer", layer |-> target_layer]
    /\ UNCHANGED <<input, store>>

\* The same filter applied to the tree the first call returned.
FilterGraphByLayerAgain ==
    /\ call.name = "filter_layer"
    /\ result.ret # Null
    /\ LET r == filter_graph_by_layer(heap, result.ret, call.layer)
       IN  /\ heap' = r.heap
           /\ result' = [ret |-> r.ret]
    /\ call' = [name |-> "filter_layer_again", layer |-> call.layer, first |-> result.ret]
    /\ UNCHANGED <<input, store>>

\* A second call on the same loaded tree with a threshold at least as large.
FilterGraphByLayerWider(target_layer) ==
    /\ call.name = "filter_layer"
    /\ target_layer >= call.layer
    /\ LET r == filter_graph_by_layer(heap, Root, target_layer)
       IN  /\ heap' = r.heap
           /\ result' = [ret |-> r.ret]
    /\ call' = [name |-> "filter_layer_wider", layer |-> target_layer,
                narrow |-> call.layer, first |-> result.ret]
    /\ UNCHANGED <<input, store>>

\* get_filtered_graph, get_graph having returned graph_data.
GetFilteredGraph(graph_data, context_params) ==
    /\ call.name = "init"
    /\ LET r == get_filtered_graph(heap, graph_data, context_params)
       IN  /\ heap' = r.heap
           /\ result' = [ret |-> r.ret]
    /\ call' = [name |-> "get_filtered_graph", graph_data |-> graph_data,
                context_params |-> context_params]
    /\ UNCHANGED <<input, store>>

\* What a lookup leaves: the node_info and the record of the call.
LookupDone(node_id, completion, r) ==
    /\ result' = r.ret
    /\ call' = [name |-> "extract_node_details", node_id |-> node_id,
                completion |-> completion, called |-> r.called]

\* extract_node_details(graph_data, node_id) on the loaded tree.
ExtractNodeDetails(node_id, completion) ==
    /\ call.name = "init"
    /\ LookupDone(node_id, completion,
                  extract_node_details(heap, Root, node_id, completion))
    /\ UNCHANGED <<heap, input, store>>

SecondLookupDone(completion, r) ==
    /\ result' = r.ret
    /\ call' = [name |-> "extract_node_details_again", node_id |-> call.node_id,
                completion |-> completion, called |-> r.called,
                first |-> result, first_called |-> call.called]

\* A later extract_node_details for the same node of the same graph: the
\* graph is read again from where the first call left it.
ExtractNodeDetailsAgain(completion) ==
    /\ call.name = "extract_node_details"
    /\ result # NoneVal
    /\ SecondLookupDone(completion,
                        extract_node_details(heap, Root, call.node_id, completion))
    /\ UNCHANGED <<heap, input, store>>

\* _find_related_nodes(graph, node_id, query) on the loaded tree.
FindRelatedNodes(node_id, query) ==
    /\ call.name = "init"
    /\ result' = [related_nodes |-> find_related_nodes(heap, Root, node_id, query)]
    /\ call' = [name |-> "find_related_nodes", node_id |-> node_id, query |-> query]
    /\ UNCHANGED <<heap, input, store>>

NextTree ==
    \/ \E l \in LayerArgs : FilterGraphByLayer(l)
    \/ FilterGraphByLayerAgain
    \/ \E l \in LayerArgs : FilterGraphByLayerWider(l)
    \/ \E g \in {Null, Root}, c \in ContextParams : GetFilteredGraph(g, c)
    \/ \E id \in NodeIdArgs, c \in ExampleCompletions : ExtractNodeDetails(id, c)
    \/ \E c \in ExampleCompletions : ExtractNodeDetailsAgain(c)
    \/ \E id \in NodeIdArgs, q \in ChatQueries : FindRelatedNodes(id, q)

Spec == InitTree /\ [][NextTree]_vars


\* ------------------------------------------------------------ JSON values

\* What json.loads builds: None, numbers, strings, lists, and dicts as their
\* keys in insertion order with the value of each.
JNull == [type |-> "null"]

JNum(n) == [type |-> "num", n |-> n]

JStr(str) == [type |-> "str", s |-> str]

JArr(items) == [type |-> "arr", items |-> items]

JObj(keys, vals) == [type |-> "obj", keys |-> keys, vals |-> vals]

EmptyObj == JObj(<<>>, <<>>)

\* `key in d` for a dict d
HasKey(d, key) == d.type = "obj" /\ key \in Range(d.keys)

\* d[key], for a key of d
Item(d, key) == d.vals[CHOOSE i \in DOMAIN d.keys : d.keys[i] = key]

\* d[key] = v: a key already there keeps its place and takes the new value.
ObjPut(d, key, v) ==
    IF key \in Range(d.keys)
    THEN JObj(d.keys, [i \in DOMAIN d.vals |-> IF d.keys[i] = key THEN v ELSE d.vals[i]])
    ELSE JObj(Append(d.keys, key), Append(d.vals, v))

\* Python truth of a value: None, 0, "", [] and {} are false.
JTruthy(v) ==
    CASE v.type = "null" -> FALSE
      [] v.type = "num" -> v.n # 0
      [] v.type = "str" -> v.s # ""
      [] v.type = "arr" -> v.items # <<>>
      [] v.type = "obj" -> v.keys # <<>>

\* ----------------------------------------------- the text of a completion

\* A completion's text is a sequence of tokens: the six JSON punctuation
\* marks, string literals, numbers, null, and words of prose.
Punct(c) == [tok |-> "punct", c |-> c]

LBrace == Punct("{")

RBrace == Punct("}")

LBracket == Punct("[")

RBracket == Punct("]")

Comma == Punct(",")

Colon == Punct(":")

StrTok(str) == [tok |-> "str", s |-> str]

NumTok(n) == [tok |-> "num", n |-> n]

NullTok == [tok |-> "null"]

Word(w) == [tok |-> "word", s |-> w]

RECURSIVE Dump(_)
RECURSIVE DumpItems(_)
RECURSIVE DumpMembers(_, _)
\* The text a JSON value is written as.
Dump(v) ==
    CASE v.type = "null" -> <<NullTok>>
      [] v.type = "num" -> <<NumTok(v.n)>>
      [] v.type = "str" -> <<StrTok(v.s)>>
      [] v.type = "arr" -> <<LBracket>> \o DumpItems(v.items) \o <<RBracket>>
      [] v.type = "obj" -> <<LBrace>> \o DumpMembers(v.keys, v.vals) \o <<RBrace>>

DumpItems(items) ==
    IF items = <<>> THEN <<>>
    ELSE IF Len(items) = 1 THEN Dump(items[1])
    ELSE Dump(items[1]) \o <<Comma>> \o DumpItems(Tail(items))

DumpMembers(keys, vals) ==
    IF keys = <<>> THEN <<>>
    ELSE IF Len(keys) = 1 THEN <<StrTok(keys[1]), Colon>> \o Dump(vals[1])
    ELSE <<StrTok(keys[1]), Colon>> \o Dump(vals[1]) \o <<Comma>>
             \o DumpMembers(Tail(keys), Tail(vals))

\* str.find(c): the 0-based index of the first c, -1 without one.
Find(text, c) ==
    IF \E i \in DOMAIN text : text[i] = c
    THEN (CHOOSE i \in DOMAIN text : text[i] = c /\ \A j \in 1..(i - 1) : text[j] # c) - 1
    ELSE 0 - 1

\* str.rfind(c): the 0-based index of the last c, -1 without one.
RFind(text, c) ==
    IF \E i \in DOMAIN text : text[i] = c
    THEN (CHOOSE i \in DOMAIN text : text[i] = c /\ \A j \in (i + 1)..Len(text) : text[j] # c) - 1
    ELSE 0 - 1

\* text[start:end] for 0 <= start <= end
Slice(text, start, end) == SubSeq(text, start + 1, Min(end, Len(text)))

ParseFail == [ok |-> FALSE]

RECURSIVE ParseValue(_, _)
RECURSIVE ParseMembers(_, _, _)
RECURSIVE ParseItems(_, _, _)
\* The JSON decoder reading one value of text t at position i:
\* [ok |-> TRUE, val |-> the value, next |-> the position after it].
ParseValue(t, i) ==
    IF i > Len(t) THEN ParseFail
    ELSE CASE t[i].tok = "str" -> [ok |-> TRUE, val |-> JStr(t[i].s), next |-> i + 1]
           [] t[i].tok = "num" -> [ok |-> TRUE, val |-> JNum(t[i].n), next |-> i + 1]
           [] t[i].tok = "null" -> [ok |-> TRUE, val |-> JNull, next |-> i + 1]
           [] t[i] = LBrace ->
                IF i + 1 <= Len(t) /\ t[i + 1] = RBrace
                THEN [ok |-> TRUE, val |-> EmptyObj, next |-> i + 2]
                ELSE ParseMembers(t, i + 1, EmptyObj)
           [] t[i] = LBracket ->
                IF i + 1 <= Len(t) /\ t[i + 1] = RBracket
                THEN [ok |-> TRUE, val |-> JArr(<<>>), next |-> i + 2]
                ELSE ParseItems(t, i + 1, <<>>)
           [] OTHER -> ParseFail

\* "key": value, then a comma and more members, or the closing brace.
ParseMembers(t, i, obj) ==
    IF i + 1 > Len(t) \/ t[i].tok # "str" \/ t[i + 1] # Colon THEN ParseFail
    ELSE LET v == ParseValue(t, i + 2)
         IN  IF ~v.ok \/ v.next > Len(t) THEN ParseFail
             ELSE IF t[v.next] = Comma
                  THEN ParseMembers(t, v.next + 1, ObjPut(obj, t[i].s, v.val))
                  ELSE IF t[v.next] = RBrace
                       THEN [ok |-> TRUE, val |-> ObjPut(obj, t[i].s, v.val),
                             next |-> v.next + 1]
                       ELSE ParseFail

\* value, then a comma and more items, or the closing bracket.
ParseItems(t, i, items) ==
    LET v == ParseValue(t, i)
    IN  IF ~v.ok \/ v.next > Len(t) THEN ParseFail
        ELSE IF t[v.next] = Comma
             THEN ParseItems(t, v.next + 1, Append(items, v.val))
             ELSE IF t[v.next] = RBracket
                  THEN [ok |-> TRUE, val |-> JArr(Append(items, v.val)),
                        next |-> v.next + 1]
                  ELSE ParseFail

\* json.loads(text): [ok |-> FALSE] stands for the JSONDecodeError raised
\* when text is not one JSON value from its first token to its last.
json_loads(text) ==
    LET r == ParseValue(text, 1)
    IN  IF r.ok /\ r.next = Len(text) + 1 THEN [ok |-> TRUE, val |-> r.val] ELSE ParseFail

\* ------------------------------------------------------- graph synthesis

\* A node dict of the graph JSON.
JNode(id, title, description, layer, relevance, children) ==
    JObj(<<"id", "title", "description", "layer", "relevance", "children">>,
         <<JStr(id), JStr(title), JStr(description), JNum(layer), JNum(relevance),
           JArr(children)>>)

\* RAGService._generate_fallback_graph
generate_fallback_graph(query) ==
    JNode("root", query, "Decision analysis based on the St. Gallen Management Model", 0, 10, <<
        JNode("env_analysis", "Environmental & Stakeholder Analysis",
              "Analysis of external factors and stakeholders", 1, 8, <<
            JNode("external_factors", "External Factors",
                  "Consider technological, economic, and social influences", 2, 7, <<>>),
            JNode("stakeholders", "Stakeholder Mapping",
                  "Identify and analyze key stakeholders", 2, 7, <<>>)>>),
        JNode("strategy", "Strategy & Business Model",
              "Strategic considerations and business model design", 1, 9, <<
            JNode("value_prop", "Value Proposition",
                  "Define the unique value offering", 2, 8, <<>>),
            JNode("comp_advantage", "Competitive Advantage",
                  "Identify sustainable competitive advantages", 2, 8, <<>>)>>),
        JNode("organization", "Organizational Structure & Processes",
              "Internal organizational considerations", 1, 7, <<
            JNode("structure", "Organizational Structure",
                  "Design appropriate organizational structures", 2, 6, <<>>),
            JNode("processes", "Management Processes",
                  "Establish effective management processes", 2, 6, <<>>)>>),
        JNode("implementation", "Implementation & Development",
              "Approaches to implementation and change management", 1, 8, <<
            JNode("change_mgmt", "Change Management",
                  "Manage organizational change effectively", 2, 7, <<>>),
            JNode("implementation", "Implementation Approach",
                  "Plan the implementation strategy", 2, 7, <<>>)>>)>>)

\* The except clause of generate_layered_graph returning (None, []).
SynthesisFailedNone(query) == [graph |-> JNull, connections |-> JArr(<<>>)]

\* `return self._generate_fallback_graph(query), []`: the except clause of
\* generate_layered_graph, and its branch for a text without a brace span.
SynthesisFailed(query) ==
    [graph |-> generate_fallback_graph(query), connections |-> JArr(<<>>)]

\* The `elif "graph" in response_data` branch returning response_data whole.
ResolveShapeWhole(response_data) ==
    IF HasKey(response_data, "graph") /\ HasKey(response_data, "connections")
    THEN [graph |-> Item(response_data, "graph"),
          connections |-> Item(response_data, "connections")]
    ELSE [graph |-> response_data, connections |-> JArr(<<>>)]

\* generate_layered_graph, "Extract graph and connections"
ResolveShape(response_data) ==
    IF HasKey(response_data, "graph") /\ HasKey(response_data, "connections")
    THEN [graph |-> Item(response_data, "graph"),
          connections |-> Item(response_data, "connections")]
    ELSE IF HasKey(response_data, "graph")
         THEN [graph |-> Item(response_data, "graph"), connections |-> JArr(<<>>)]
         ELSE [graph |-> response_data, connections |-> JArr(<<>>)]

\* RAGService.generate_layered_graph.  context_raises: generate_context or
\* the assembly of the prompt raised; completion: [raises |-> TRUE], or
\* [raises |-> FALSE, text |-> the message content].
generate_layered_graph(query, context_raises, completion) ==
    IF context_raises \/ completion.raises
    THEN SynthesisFailed(query)
    ELSE LET result_text == completion.text
             json_start == Find(result_text, LBrace)
             json_end == RFind(result_text, RBrace) + 1
         IN  IF json_start >= 0 /\ json_end > json_start
             THEN LET json_str == Slice(result_text, json_start, json_end)
                      response_data == json_loads(json_str)
                  IN  IF response_data.ok
                      THEN ResolveShape(response_data.val)
                      ELSE SynthesisFailed(query)
             ELSE SynthesisFailed(query)

\* ------------------------------------------ inputs of the synthesis calls

QueryTexts == {"How to restructure?", "How to grow?"}

GoodTree == JNode("node_0", "Central", "d0", 0, 10, <<JNode("node_1", "Core", "d1", 1, 9, <<>>)>>)

\* A tree whose child repeats the id of the root.
RepeatedIdTree ==
    JNode("node_0", "Central", "d0", 0, 10, <<JNode("node_0", "Core", "d1", 1, 9, <<>>)>>)

\* A node without layer, relevance and children.
PartialNode == JObj(<<"id", "title">>, <<JStr("node_0"), JStr("Central")>>)

Conn(source_id, target_id) ==
    JObj(<<"source_id", "target_id", "relationship_type", "description">>,
         <<JStr(source_id), JStr(target_id), JStr("influences"), JStr("c")>>)

ConnA == Conn("node_0", "node_1")

ConnB == Conn("node_1", "node_0")

Prose == <<Word("Here"), Word("is"), Word("the"), Word("graph")>>

\* Message contents the completion may return.
CompletionTexts ==
    {Prose \o Dump(GoodTree) \o <<Word("Done")>>,
     Dump(JObj(<<"graph", "connections">>, <<GoodTree, JArr(<<ConnA, ConnB>>)>>)),
     Dump(JObj(<<"graph">>, <<GoodTree>>)),
     Dump(JObj(<<"connections">>, <<JArr(<<ConnA>>)>>)),
     Dump(JObj(<<"connections", "graph">>, <<JArr(<<ConnA>>), RepeatedIdTree>>)),
     Prose,
     <<RBrace>> \o Prose \o <<LBrace>>,
     <<LBrace>> \o Prose \o <<RBrace>>,
     <<LBrace, StrTok("graph"), Colon, RBrace>>,
     Dump(GoodTree) \o Prose \o <<RBrace>>,
     <<Word("Use"), LBrace, Word("braces"), RBrace>> \o Dump(GoodTree),
     Dump(RepeatedIdTree),
     Dump(PartialNode),
     Dump(EmptyObj),
     Dump(JObj(<<"graph">>, <<JNull>>)),
     Dump(JObj(<<"graph", "connections">>, <<JStr("see above"), JArr(<<>>)>>)),
     Dump(JObj(<<"graph", "connections">>, <<GoodTree, JObj(<<"node_0">>, <<JStr("node_1")>>)>>)),
     Dump(JObj(<<"graph", "connections">>, <<GoodTree, JArr(<<ConnA, JStr("node_1")>>)>>)),
     Dump(JObj(<<"graph", "connections">>, <<GoodTree, JNum(2)>>))}

\* Outcomes of openai_client.chat.completions.create.
Completions ==
    {[raises |-> TRUE, text |-> <<>>]} \cup {[raises |-> FALSE, text |-> t] : t \in CompletionTexts}

\* ------------------------------------------- generate_graph_for_query

\* What `for connection in connections` iterates over: the items of a list,
\* the keys of a dict, the characters of a string.
IterItems(v) ==
    CASE v.type = "arr" -> v.items
      [] v.type = "obj" -> [i \in DOMAIN v.keys |-> JStr(v.keys[i])]
      [] v.type = "str" -> <<JStr(v.s)>>
      [] OTHER -> <<>>

\* Query.update_status leaving the graph_id out of the update.
update_status_unlinked(qs, query_id, status, graph_id) ==
    [qs EXCEPT ![query_id] = [@ EXCEPT !.status = status]]

\* Query.update_status
update_status(qs, query_id, status, graph_id) ==
    [qs EXCEPT ![query_id] =
        IF graph_id # 0
        THEN [@ EXCEPT !.status = status, !.graph_id = graph_id]
        ELSE [@ EXCEPT !.status = status]]

InitStore ==
    /\ heap = <<>>
    /\ input = <<>>
    /\ call = [name |-> "init"]
    /\ result = NoneVal
    /\ queries = <<>>
    /\ graphs = <<>>
    /\ connections = <<>>
    /\ req = IdleReq

Returned(query_id, graph_id, raised) ==
    [query_id |-> query_id, graph_id |-> graph_id, raised |-> raised]

\* generate_graph_for_query, line 30: Query.create.  When the insert raises,
\* the except clause finds no query_id and returns (None, None).
QueryCreate(query_text, ok) ==
    /\ req.pc \in {"idle", "done"}
    /\ Len(queries) < MaxQueries
    /\ IF ok
       THEN /\ queries' = Append(queries, [query_text |-> query_text,
                                           status |-> "processing", graph_id |-> 0])
            /\ req' = [IdleReq EXCEPT !.pc = "created", !.query_text = query_text,
                                      !.query_id = Len(queries) + 1]
       ELSE /\ req' = [IdleReq EXCEPT !.pc = "done", !.query_text = query_text]
            /\ UNCHANGED queries
    /\ UNCHANGED <<heap, input, call, result, graphs, connections>>

\* Line 33: rag_service.generate_layered_graph(query_text, context_params).
Synthesize(context_raises, completion) ==
    /\ req.pc = "created"
    /\ LET r == generate_layered_graph(req.query_text, context_raises, completion)
       IN  /\ result' = r
           /\ req' = [req EXCEPT !.pc = "synthesized", !.graph_data = r.graph,
                                 !.connections = r.connections]
    /\ call' = [name |-> "generate_layered_graph", query |-> req.query_text,
                context_raises |-> context_raises, completion |-> completion]
    /\ UNCHANGED <<heap, input, queries, graphs, connections>>

\* Lines 35-37: no graph_data, the query is marked failed.
MarkFailed(ok) ==
    /\ req.pc = "synthesized"
    /\ ~JTruthy(req.graph_data)
    /\ IF ok
       THEN /\ queries' = update_status(queries, req.query_id, "failed", 0)
            /\ req' = [req EXCEPT !.pc = "done", !.ret = Returned(req.query_id, 0, FALSE)]
       ELSE /\ req' = [req EXCEPT !.pc = "except"]
            /\ UNCHANGED queries
    /\ UNCHANGED <<heap, input, call, result, graphs, connections>>

\* Lines 40-43: Graph.create, then the test `connections and
\* len(connections) > 0` (len of a number raises).
GraphCreate(ok) ==
    /\ req.pc = "synthesized"
    /\ JTruthy(req.graph_data)
    /\ IF ok
       THEN /\ graphs' = Append(graphs, [query_id |-> req.query_id,
                                         graph_data |-> req.graph_data])
            /\ req' = [req EXCEPT !.graph_id = Len(graphs) + 1, !.i = 1,
                          !.pc = IF ~JTruthy(req.connections) THEN "completing"
                                 ELSE IF req.connections.type = "num" THEN "except"
                                 ELSE "adding"]
       ELSE /\ req' = [req EXCEPT !.pc = "except"]
            /\ UNCHANGED graphs
    /\ UNCHANGED <<heap, input, call, result, queries, connections>>

\* Graph.add_connections, one turn of its loop: connection["graph_id"] =
\* graph_id raises on anything but a dict; insert_one may raise.
AddConnection(ok) ==
    /\ req.pc = "adding"
    /\ LET items == IterItems(req.connections)
       IN  IF req.i > Len(items)
           THEN /\ req' = [req EXCEPT !.pc = "completing"]
                /\ UNCHANGED connections
           ELSE IF items[req.i].type = "obj" /\ ok
                THEN /\ connections' = Append(connections,
                            [graph_id |-> req.graph_id, connection |-> items[req.i]])
                     /\ req' = [req EXCEPT !.i = req.i + 1]
                ELSE /\ req' = [req EXCEPT !.pc = "except"]
                     /\ UNCHANGED connections
    /\ UNCHANGED <<heap, input, call, result, queries, graphs>>

\* Lines 47-49: Query.update_status(query_id, "completed", graph_id).
Complete(ok) ==
    /\ req.pc = "completing"
    /\ IF ok
       THEN /\ queries' = update_status(queries, req.query_id, "completed", req.graph_id)
            /\ req' = [req EXCEPT !.pc = "done",
                                  !.ret = Returned(req.query_id, req.graph_id, FALSE)]
       ELSE /\ req' = [req EXCEPT !.pc = "except"]
            /\ UNCHANGED queries
    /\ UNCHANGED <<heap, input, call, result, graphs, connections>>

\* Lines 51-55, the except clause: Query.update_status(query_id, "failed");
\* when that raises too, the exception leaves generate_graph_for_query.
Except(ok) ==
    /\ req.pc = "except"
    /\ IF ok
       THEN /\ queries' = update_status(queries, req.query_id, "failed", 0)
            /\ req' = [req EXCEPT !.pc = "done", !.ret = Returned(req.query_id, 0, FALSE)]
       ELSE /\ req' = [req EXCEPT !.pc = "done", !.ret = Returned(0, 0, TRUE)]
            /\ UNCHANGED queries
    /\ UNCHANGED <<heap, input, call, result, graphs, connections>>

\* Graph.get_by_query_id: the position of the first record of the query, 0
\* for None.
Graph_get_by_query_id(gs, query_id) ==
    IF \E g \in DOMAIN gs : gs[g].query_id = query_id
    THEN CHOOSE g \in DOMAIN gs :
             /\ gs[g].query_id = query_id
             /\ \A g2 \in DOMAIN gs : gs[g2].query_id = query_id => g <= g2
    ELSE 0

\* Graph.get_connections: the connection records of the graph.
Graph_get_connections(cs, graph_id) ==
    LET found == SelectSeq(cs, LAMBDA c : c.graph_id = graph_id)
    IN  [i \in DOMAIN found |-> found[i].connection]

\* A concurrent reader loads a graph: Graph.get_by_id (by "graph_id", as
\* get_graph_with_connections does) or Graph.get_by_query_id (by
\* "query_id", as get_graph_for_query does).
ReaderLoadsGraph(by, key) ==
    /\ LET g == IF by = "graph_id"
                THEN (IF key \in DOMAIN graphs THEN key ELSE 0)
                ELSE Graph_get_by_query_id(graphs, key)
       IN  /\ g # 0
           /\ call' = [name |-> "get_graph", by |-> by, graph_id |-> g]
           /\ result' = [graph |-> graphs[g].graph_data]
    /\ UNCHANGED <<heap, input, store>>

\* The reader that loaded a graph loads its connections.
ReaderLoadsConnections ==
    /\ call.name = "get_graph"
    /\ call' = [name |-> "get_connections", by |-> call.by, graph_id |-> call.graph_id]
    /\ result' = [graph |-> result.graph,
                  connections |-> Graph_get_connections(connections, call.graph_id)]
    /\ UNCHANGED <<heap, input, store>>

NextStore ==
    \/ \E by \in {"graph_id", "query_id"}, key \in 1..MaxQueries : ReaderLoadsGraph(by, key)
    \/ ReaderLoadsConnections
    \/ \E q \in QueryTexts, ok \in BOOLEAN : QueryCreate(q, ok)
    \/ \E cr \in BOOLEAN, c \in Completions : Synthesize(cr, c)
    \/ \E ok \in BOOLEAN : MarkFailed(ok)
    \/ \E ok \in BOOLEAN : GraphCreate(ok)
    \/ \E ok \in BOOLEAN : AddConnection(ok)
    \/ \E ok \in BOOLEAN : Complete(ok)
    \/ \E ok \in BOOLEAN : Except(ok)

SpecStore == InitStore /\ [][NextStore]_vars

\* ------------------------------------------------------------- node chat
\* The node services read a persisted graph: `graphs` holds one record per
\* graph, its graph_data the address in `heap` of the tree's root as loaded,
\* and `connections` the connection records, each with its graph_id.

\* A graph id that is no ObjectId: ObjectId(graph_id) raises.
MalformedId == 0 - 1

\* Graph.get_by_id: [raised |-> ObjectId raised, doc |-> the record or None].
Graph_get_by_id(gs, graph_id) ==
    IF graph_id = MalformedId
    THEN [raised |-> TRUE, doc |-> NoneVal]
    ELSE [raised |-> FALSE, doc |-> IF graph_id \in DOMAIN gs THEN gs[graph_id] ELSE NoneVal]

\* GraphService.get_graph: the graph_data, None for no record and for a raise.
GraphDataOf(graph) ==
    IF graph.raised \/ graph.doc = NoneVal THEN Null ELSE graph.doc.graph_data

get_graph(gs, graph_id) == GraphDataOf(Graph_get_by_id(gs, graph_id))

\* Graph.get_node_connections: the records of the graph with the node at
\* either end.
Graph_get_node_connections(cs, graph_id, node_id) ==
    SelectSeq(cs, LAMBDA c : /\ c.graph_id = graph_id
                             /\ \/ "source_id" \in DOMAIN c /\ c.source_id = node_id
                                \/ "target_id" \in DOMAIN c /\ c.target_id = node_id)

\* GraphService.get_node_connections: [] when the query raises.
get_node_connections(cs, graph_id, node_id, ok) ==
    IF ok THEN Graph_get_node_connections(cs, graph_id, node_id) ELSE <<>>

\* NodeChatService._retrieve_document_context.  document is the outcome of
\* Document.get_by_id ("raises", "absent" or "found") with the chunks the
\* search returns: [text |-> the context, searches |-> search calls made].
retrieve_document_context(document) ==
    CASE document.kind = "raises" ->
             [text |-> <<"Error retrieving relevant information from the document.">>,
              searches |-> 0]
      [] document.kind = "absent" -> [text |-> <<>>, searches |-> 0]
      [] OTHER ->
             [text |-> IF document.chunks = <<>>
                       THEN <<"No relevant information found in the document.">>
                       ELSE document.chunks,
              searches |-> 1]

\* NodeChatService._generate_rag_response: the text returned, the apology
\* when create() raises; has |-> FALSE for a content of None.
generate_rag_response(completion) ==
    CASE completion.kind = "raises" ->
             [has |-> TRUE,
              text |-> <<"I'm sorry, I encountered an error while generating a response.">>]
      [] completion.kind = "none" -> [has |-> FALSE, text |-> <<>>]
      [] OTHER -> [has |-> TRUE, text |-> completion.content]

\* NodeChatService._generate_suggested_questions
generate_suggested_questions(node_title) ==
    <<<<"How can ">> \o node_title \o <<" be measured or evaluated in practice?">>,
      <<"What are the key challenges in managing ">> \o node_title \o <<" effectively?">>,
      <<"How does ">> \o node_title \o
          <<" interact with other elements of the St. Gallen Management Model?">>>>

\* What a service call returns and did: ret is the value returned, a dict
\* alone (tuple FALSE) or a (dict, status) tuple; read names the outcomes
\* of io the call came to use.
ChatReturn(tuple, body, status, searches, completions, read) ==
    [ret |-> [tuple |-> tuple, body |-> body, status |-> status],
     searches |-> searches, completions |-> completions, read |-> read]

\* `return {"error": ...}, 404`, and the except clause's 500.
ChatError(msg, status, searches, completions, read) ==
    ChatReturn(TRUE, [error |-> msg], status, searches, completions, read)

\* The node dict lacks a key the service subscripts.
LacksKey(node) ==
    \E k \in {"title", "description", "layer", "relevance"} : k \notin DOMAIN node

\* generate_chat_response from the document retrieval on: asked counts the
\* completion calls made before.
ChatAnswer(h, graph, node_id, query, node, asked, document_context, response_text) ==
    IF ~response_text.has
    THEN ChatError("Failed to generate response: expected string or bytes-like object",
                   500, document_context.searches, asked + 1,
                   {"examples", "conn_ok", "document", "rag"})
    ELSE ChatReturn(FALSE,
             [success |-> TRUE,
              response |-> response_text.text,
              examples |-> chat_extract_examples(response_text.text),
              related_nodes |-> find_related_nodes(h, graph, node_id, query),
              suggested_questions |-> generate_suggested_questions(node.title)],
             0, document_context.searches, asked + 1,
             {"examples", "conn_ok", "document", "rag"})

\* generate_chat_response from the node's fields on: node["title"] and the
\* like, then conn['target_title'] for each connection.
ChatAboutNode(h, graph, node_id, query, io, node, asked, conns) ==
    IF LacksKey(node)
    THEN ChatError("Failed to generate response: KeyError", 500, 0, asked, {"examples"})
    ELSE IF \E i \in DOMAIN conns : "target_title" \notin DOMAIN conns[i]
    THEN ChatError("Failed to generate response: 'target_title'", 500, 0, asked,
                   {"examples", "conn_ok"})
    ELSE ChatAnswer(h, graph, node_id, query, node, asked,
                    retrieve_document_context(io.document), generate_rag_response(io.rag))

\* generate_chat_response from `if not node_details:` on.
ChatWithDetails(h, cs, graph, graph_id, node_id, query, io, node_details) ==
    IF node_details.ret = NoneVal
    THEN ChatError("Node not found", 404, 0, IF node_details.called THEN 1 ELSE 0, {})
    ELSE ChatAboutNode(h, graph, node_id, query, io, h[node_details.ret.node],
                       IF node_details.called THEN 1 ELSE 0,
                       get_node_connections(cs, graph_id, node_id, io.conn_ok))

\* generate_chat_response from `if not graph:` on.
ChatWithGraph(h, cs, graph, graph_id, node_id, query, io) ==
    IF graph = Null
    THEN ChatError("Graph not found", 404, 0, 0, {})
    ELSE ChatWithDetails(h, cs, graph, graph_id, node_id, query, io,
                         extract_node_details(h, graph, node_id, io.examples))

\* NodeChatService.generate_chat_response, for the chat_history and query_id
\* the route hands it ([] and None).  io holds the outcomes of what it
\* calls: examples and rag (the two completions), conn_ok (the connections
\* query) and document.
generate_chat_response(h, gs, cs, graph_id, node_id, query, io) ==
    ChatWithGraph(h, cs, get_graph(gs, graph_id), graph_id, node_id, query, io)

\* The route node_chat answering 200 whatever the service returned.
node_chat_ok(r) == [body |-> r.body, status |-> 200]

\* The route node_chat: [body, status] of the HTTP response.
node_chat(r) ==
    IF r.tuple /\ "error" \in DOMAIN r.body
    THEN [body |-> r.body, status |-> r.status]
    ELSE [body |-> r.body, status |-> 200]

\* ------------------------------------------------------------- node quiz

\* LLMService.generate_text: the content, or the error text when the call
\* raises (completion.content then spells str(e)); has |-> FALSE for a
\* content of None.
generate_text(completion) ==
    CASE completion.kind = "raises" ->
             [has |-> TRUE, text |-> <<Word("Error generating text: ")>> \o completion.content]
      [] completion.kind = "none" -> [has |-> FALSE, text |-> <<>>]
      [] OTHER -> [has |-> TRUE, text |-> completion.content]

\* `return json.loads(json_str)`, {} on a JSONDecodeError.
LoadedOrEmpty(r) == IF r.ok THEN r.val ELSE EmptyObj

\* NodeQuizService._extract_json, for a str.
extract_json(text) ==
    IF Find(text, LBrace) >= 0 /\ RFind(text, RBrace) + 1 > Find(text, LBrace)
    THEN LoadedOrEmpty(json_loads(Slice(text, Find(text, LBrace), RFind(text, RBrace) + 1)))
    ELSE EmptyObj

\* `quiz_data and "questions" in quiz_data`
IsQuiz(quiz_data) == JTruthy(quiz_data) /\ HasKey(quiz_data, "questions")

\* A dict holding an error message alone.
ErrorDict(msg) == JObj(<<"error">>, <<JStr(msg)>>)

\* The template of _create_fallback_quiz.
PlaceholderQuiz ==
    JObj(<<"questions", "error">>,
         <<JArr(<<JObj(<<"question", "options", "correct_answer", "explanation">>,
                       <<JStr("What is the main concept described in this node?"),
                         JObj(<<"A", "B", "C", "D">>,
                              <<JStr("Option A"), JStr("Option B"),
                                JStr("Option C"), JStr("Option D")>>),
                         JStr("A"),
                         JStr("This is a placeholder question. The quiz generation failed.")>>)>>),
           JStr("Failed to generate custom quiz questions. Using placeholder.")>>)

\* The quiz of the retry, the template when it is none.
QuizOrPlaceholder(quiz_data) == IF IsQuiz(quiz_data) THEN quiz_data ELSE PlaceholderQuiz

\* _create_fallback_quiz after its generate_text call.  _extract_json(None)
\* raises into the except clause.
FallbackOf(response) ==
    IF ~response.has
    THEN ErrorDict("Quiz generation failed completely")
    ELSE QuizOrPlaceholder(extract_json(response.text))

\* _create_fallback_quiz returning the last-resort dict where the template
\* belongs.
create_fallback_quiz_no_template(completion) ==
    ErrorDict("Quiz generation failed completely")

\* NodeQuizService._create_fallback_quiz, completion the outcome of the
\* call with the simpler prompt.
create_fallback_quiz(completion) == FallbackOf(generate_text(completion))

\* _generate_questions asking again whatever the first reply held.
QuizOrFallbackAlways(quiz_data, second) ==
    [quiz |-> create_fallback_quiz(second), calls |-> 2]

\* _generate_questions after _extract_json: the quiz, the fallback when it
\* is none.
QuizOrFallback(quiz_data, second) ==
    IF IsQuiz(quiz_data)
    THEN [quiz |-> quiz_data, calls |-> 1]
    ELSE [quiz |-> create_fallback_quiz(second), calls |-> 2]

\* _generate_questions after its generate_text call.  _extract_json(None)
\* raises into the except clause.
QuestionsOf(response, second) ==
    IF response.has
    THEN QuizOrFallback(extract_json(response.text), second)
    ELSE [quiz |-> create_fallback_quiz(second), calls |-> 2]

\* NodeQuizService._generate_questions: [quiz |-> the dict returned,
\* calls |-> generate_text calls made].
generate_questions(first, second) == QuestionsOf(generate_text(first), second)

\* description[:100] + '...' if len(description) > 100 else description
ShortDesc(description) ==
    IF Len(description) > 100
    THEN SubSeq(description, 1, 100) \o <<"...">>
    ELSE description

RECURSIVE ExampleLines(_)
\* The lines "- {example}" of the context.
ExampleLines(examples) ==
    IF examples = <<>>
    THEN <<>>
    ELSE <<"- {'title': '">> \o Head(examples).title \o <<"', 'description': '">> \o
         Head(examples).description \o <<"'}", "\n">> \o ExampleLines(Tail(examples))

RECURSIVE RelatedLines(_)
\* The lines "- {label}: {short_desc}" of the context.
RelatedLines(connected_nodes) ==
    IF connected_nodes = <<>>
    THEN <<>>
    ELSE <<"- ">> \o Get(Head(connected_nodes), "label", <<"Unknown">>) \o <<": ">> \o
         ShortDesc(Get(Head(connected_nodes), "description", <<>>)) \o <<"\n">> \o
         RelatedLines(Tail(connected_nodes))

\* NodeQuizService._build_quiz_context.  node and the connected nodes are
\* the dicts extract_node_details returned (keys node, path, level and
\* examples).
build_quiz_context(node, connected_nodes, original_query_text) ==
    <<"Topic: ">> \o Get(node, "label", <<"Unknown Topic">>) \o <<"\n", "\n">> \o
    <<"Description: ">> \o Get(node, "description", <<"No description available">>) \o
    <<"\n", "\n">> \o
    (IF "examples" \in DOMAIN node /\ node.examples # <<>>
     THEN <<"Examples:", "\n">> \o ExampleLines(node.examples) \o <<"\n">>
     ELSE <<>>) \o
    (IF connected_nodes # <<>>
     THEN <<"Related concepts:", "\n">> \o RelatedLines(connected_nodes) \o <<"\n">>
     ELSE <<>>) \o
    (IF original_query_text # <<>>
     THEN <<"Original query: ">> \o original_query_text \o <<"\n", "\n">>
     ELSE <<>>) \o
    <<"Source: document", "\n">>

RECURSIVE ConnectedNodes(_, _, _, _, _, _)
\* `if connected_node_data: connected_nodes.append(connected_node_data)`
AppendConnected(acc, connected_node_data) ==
    [raised |-> FALSE,
     nodes |-> IF connected_node_data.ret # NoneVal
               THEN Append(acc.nodes, connected_node_data.ret)
               ELSE acc.nodes,
     calls |-> acc.calls + (IF connected_node_data.called THEN 1 ELSE 0)]

\* The body of the loop over the connections.
ConnectedNode(h, graph_data, node_id, conn, completion, acc) ==
    IF "target" \notin DOMAIN conn \/ (conn.target = node_id /\ "source" \notin DOMAIN conn)
    THEN [acc EXCEPT !.raised = TRUE]
    ELSE AppendConnected(acc,
             extract_node_details(h, graph_data,
                 IF conn.target = node_id THEN conn.source ELSE conn.target, completion))

\* The loop of generate_quiz over the connections: [raised |-> a KeyError,
\* nodes |-> connected_nodes, calls |-> completion calls made].
ConnectedNodes(h, graph_data, node_id, conns, completion, acc) ==
    IF conns = <<>> \/ acc.raised
    THEN acc
    ELSE ConnectedNodes(h, graph_data, node_id, Tail(conns), completion,
             ConnectedNode(h, graph_data, node_id, Head(conns), completion, acc))

\* What generate_quiz returns and did: the dict, the context built (built
\* FALSE when none was), the generate_text calls made and the outcomes of
\* io the call came to use.
QuizReturn(quiz, built, context, q_calls, read) ==
    [ret |-> quiz, built |-> built, context |-> context, calls |-> q_calls, read |-> read]

QuizError(msg, read) == QuizReturn(ErrorDict(msg), FALSE, <<>>, 0, read)

\* generate_quiz from the context on.
QuizOfContext(context, q) ==
    QuizReturn(q.quiz, TRUE, context, q.calls,
               {"examples", "document", "conn_ok", "query_text", "first", "second"})

\* generate_quiz from the loop over the connections on.
QuizWithConnected(node_data, io, connected) ==
    IF connected.raised
    THEN QuizError("Failed to generate quiz: 'target'", {"examples", "document", "conn_ok"})
    ELSE QuizOfContext(build_quiz_context(node_data.ret, connected.nodes, io.query_text),
                       generate_questions(io.first, io.second))

\* generate_quiz from `if not node_data:` on.
QuizWithNode(h, cs, graph_data, graph_id, node_id, io, node_data) ==
    IF node_data.ret = NoneVal
    THEN QuizError("Node not found", {})
    ELSE IF io.document = "raises"
    THEN QuizError("Failed to generate quiz: document", {"examples", "document"})
    ELSE IF io.document = "absent"
    THEN QuizError("Document not found", {"examples", "document"})
    ELSE QuizWithConnected(node_data, io,
             ConnectedNodes(h, graph_data, node_id,
                            get_node_connections(cs, graph_id, node_id, io.conn_ok),
                            io.examples, [raised |-> FALSE, nodes |-> <<>>, calls |-> 0]))

\* generate_quiz from `if not graph:` on.
QuizWithGraph(h, cs, graph, graph_id, node_id, io) ==
    IF graph.raised
    THEN QuizError("Failed to generate quiz: InvalidId", {})
    ELSE IF graph.doc = NoneVal
    THEN QuizError("Graph not found", {})
    ELSE QuizWithNode(h, cs, graph.doc.graph_data, graph_id, node_id, io,
                      extract_node_details(h, graph.doc.graph_data, node_id, io.examples))

\* NodeQuizService.generate_quiz, without a query_id or with one of a stored
\* query (io.query_text).  io holds the outcomes of what it calls: examples
\* (the examples completion), document, conn_ok (the connections query),
\* first and second (the two generate_text calls).
generate_quiz(h, gs, cs, graph_id, node_id, io) ==
    QuizWithGraph(h, cs, Graph_get_by_id(gs, graph_id), graph_id, node_id, io)

\* ---------------------------------------- inputs of the node service calls

\* A stored connection with the fields of the data model; strength 0 for a
\* record without one.
DataConn(source_id, target_id, strength) ==
    IF strength = 0
    THEN [graph_id |-> 1, source_id |-> source_id, target_id |-> target_id,
          relationship_type |-> "supports", description |-> <<"c">>]
    ELSE [graph_id |-> 1, source_id |-> source_id, target_id |-> target_id,
          relationship_type |-> "supports", description |-> <<"c">>, strength |-> strength]

\* A stored connection to which the generator gave further keys (connections
\* are stored as generated).
RichConn(source_id, target_id) ==
    [graph_id |-> 1, source_id |-> source_id, target_id |-> target_id,
     relationship_type |-> "supports", description |-> <<"c">>,
     source |-> source_id, target |-> target_id, target_title |-> <<"t2">>]

\* The connections collection as a request may find it.
ConnectionSets ==
    {<<>>,
     <<DataConn("n1", "n2", 5)>>,
     <<DataConn("n1", "n2", 5), DataConn("n3", "n1", 0)>>,
     <<RichConn("n1", "n2")>>}

\* The persisted trees the node services are run on.
NodeTrees ==
    {ScenarioTree,
     <<GraphNode("n1", <<"t1">>, 0, 10, <<>>, <<>>)>>,
     <<GraphNode("n1", <<"t1">>, 0, 10, <<2>>,
                 <<[title |-> <<"IBM">>, description |-> <<"They", " ", "pivoted", ".">>]>>),
       GraphNode("n2", <<"t2">>, 1, 8, <<>>, <<>>)>>}

\* graph ids asked for: the stored graph's, one of no graph, one malformed.
GraphIdArgs == {1, 2, MalformedId}

DocumentOutcomes ==
    {[kind |-> "raises", chunks |-> <<>>], [kind |-> "absent", chunks |-> <<>>],
     [kind |-> "found", chunks |-> <<>>],
     [kind |-> "found", chunks |-> <<"PASSAGE 1:", "\n", "text", "\n", "\n">>]}

\* Outcomes of the chat completion.
RagCompletions ==
    {Completion("raises", <<>>), Completion("none", <<>>),
     Completion("text", <<"It", " ", "depends", ".">>),
     Completion("text", <<"It", " ", "depends", ".", "\n", "\n">> \o TextMayo)}

\* Outcomes of the examples completion during a chat or a quiz.
NodeExampleCompletions == {Completion("raises", <<>>), Completion("text", TextIBM)}

ChatIO ==
    [examples : NodeExampleCompletions, conn_ok : BOOLEAN,
     document : DocumentOutcomes, rag : RagCompletions]

\* A quiz as the prompt asks for it.
QuizJson ==
    JObj(<<"questions">>,
         <<JArr(<<JObj(<<"question", "correct_answer">>, <<JStr("Q1"), JStr("A")>>)>>)>>)

\* Outcomes of a generate_text call: the call raising (with and without
\* braces in the message), a content of None, prose, a quiz inside prose
\* and an object without a questions key.
QuizCompletions ==
    {Completion("raises", <<Word("Connection error.")>>),
     Completion("raises", <<Word("Error code: 401 - "), LBrace, Word("'error'"), RBrace>>),
     Completion("none", <<>>),
     Completion("text", <<Word("Here are five questions.")>>),
     Completion("text", <<Word("Here you go:")>> \o Dump(QuizJson)),
     Completion("text", Dump(JObj(<<"quiz">>, <<JArr(<<>>)>>)))}

QuizIO ==
    [examples : NodeExampleCompletions, conn_ok : BOOLEAN,
     document : {"raises", "absent", "found"},
     query_text : {<<>>, <<"How to grow?">>},
     first : QuizCompletions, second : QuizCompletions]

\* ------------------------------------- the node service calls, one at a time

InitNode ==
    /\ heap \in NodeTrees
    /\ input = heap
    /\ call = [name |-> "init"]
    /\ result = NoneVal
    /\ queries = <<>>
    /\ graphs = <<[query_id |-> 1, graph_data |-> Root]>>
    /\ connections \in ConnectionSets
    /\ req = IdleReq

\* What a chat request leaves: the response and the record of the call.
ChatDone(graph_id, node_id, io, r) ==
    /\ result' = node_chat(r.ret)
    /\ call' = [name |-> "node_chat", has_fields |-> TRUE,
                graph_id |-> graph_id, node_id |-> node_id,
                io |-> [f \in r.read |-> io[f]],
                searches |-> r.searches, completions |-> r.completions]

\* POST of a chat message: the route node_chat around generate_chat_response.
\* has_fields: the body carries node_id, graph_id, query and document_id.
NodeChat(has_fields, graph_id, node_id, query, io) ==
    /\ call.name = "init"
    /\ IF has_fields
       THEN ChatDone(graph_id, node_id, io,
                     generate_chat_response(heap, graphs, connections, graph_id,
                                            node_id, query, io))
       ELSE /\ result' = [body |-> [error |-> "Invalid request"], status |-> 400]
            /\ call' = [name |-> "node_chat", has_fields |-> FALSE,
                        graph_id |-> 0, node_id |-> "", io |-> <<>>,
                        searches |-> 0, completions |-> 0]
    /\ UNCHANGED <<heap, input, store>>

\* What a quiz request leaves: the quiz and the record of the call.
QuizDone(graph_id, node_id, io, r) ==
    /\ result' = [quiz |-> r.ret, built |-> r.built, context |-> r.context]
    /\ call' = [name |-> "generate_quiz", graph_id |-> graph_id, node_id |-> node_id,
                io |-> [f \in r.read |-> io[f]], calls |-> r.calls]

\* generate_quiz(graph_id, node_id, document_id)
GenerateQuiz(graph_id, node_id, io) ==
    /\ call.name = "init"
    /\ QuizDone(graph_id, node_id, io,
                generate_quiz(heap, graphs, connections, graph_id, node_id, io))
    /\ UNCHANGED <<heap, input, store>>

NextNode ==
    \/ \E f \in BOOLEAN, g \in GraphIdArgs, id \in NodeIdArgs, q \in ChatQueries,
          io \in ChatIO : NodeChat(f, g, id, q, io)
    \/ \E g \in GraphIdArgs, id \in NodeIdArgs, io \in QuizIO : GenerateQuiz(g, id, io)

SpecNode == InitNode /\ [][NextNode]_vars

\* --------------------------------------------- the text functions alone

\* Largest number of Example blocks of an enumerated reply.
MaxBlocks == 2

\* Titles, descriptions and questions scored against one another.
ScoreTexts ==
    {<<>>, <<"apple">>, <<"bad", " ", "apple">>, <<"good", " ", "apple">>,
     <<"Apple", " ", " ", "pie">>}

\* Titles of the blocks of a reply.
BlockTitles == {<<"IBM">>, <<"Mayo", " ", "Clinic">>}

\* Bodies of the blocks of a reply: one line, two lines, two paragraphs.
BlockBodies ==
    {<<"They", " ", "pivoted", ".">>,
     <<"They", " ", "pivoted", ".", "\n", "It", " ", "worked", ".">>,
     <<"They", " ", "pivoted", ".", "\n", "\n", "It", " ", "worked", ".">>}

\* A block: the marker, the title, a newline and the body.
Block(title, body) == <<"Example", ":", " ">> \o title \o <<"\n">> \o body

Blocks == {[title |-> t, body |-> b] : t \in BlockTitles, b \in BlockBodies}

RECURSIVE TextOfBlocks(_, _)
\* The blocks one after another, sep between two of them.
TextOfBlocks(blocks, sep) ==
    IF Len(blocks) = 1
    THEN Block(blocks[1].title, blocks[1].body)
    ELSE Block(blocks[1].title, blocks[1].body) \o sep \o TextOfBlocks(Tail(blocks), sep)

\* The sequences of 1..MaxBlocks blocks.
BlockSeqs == UNION {[1..k -> Blocks] : k \in 1..MaxBlocks}

\* Replies without a block: prose, a paragraph naming a case, a block whose
\* title holds a colon.
OtherTexts ==
    {<<>>, <<"It", " ", "depends", ".">>,
     <<"One", " ", "case", ".", " ", "It", " ", "worked", ".", "\n", "\n", "Nothing">>,
     <<"Example", ":", " ", "IBM", ":", " ", "pivot", "\n", "They", " ", "pivoted", ".">>}

InitText ==
    /\ heap = <<>>
    /\ input = <<>>
    /\ call = [name |-> "init"]
    /\ result = NoneVal
    /\ queries = <<>>
    /\ graphs = <<>>
    /\ connections = <<>>
    /\ req = IdleReq

\* _calculate_relevance(title, description, query)
CalculateRelevance(title, description, query) ==
    /\ call.name = "init"
    /\ result' = [score |-> calculate_relevance(title, description, query)]
    /\ call' = [name |-> "calculate_relevance", title |-> title,
                description |-> description, query |-> query]
    /\ UNCHANGED <<heap, input, store>>

\* GraphService._extract_examples(text) on a reply made of blocks.
ExtractExamples(blocks, sep) ==
    /\ call.name = "init"
    /\ result' = [examples |-> extract_examples(TextOfBlocks(blocks, sep))]
    /\ call' = [name |-> "extract_examples", blocks |-> blocks, sep |-> sep]
    /\ UNCHANGED <<heap, input, store>>

\* NodeChatService._extract_examples(text) on a reply made of blocks.
ChatExtractExamples(blocks, sep) ==
    /\ call.name = "init"
    /\ result' = [examples |-> chat_extract_examples(TextOfBlocks(blocks, sep))]
    /\ call' = [name |-> "chat_extract_examples", blocks |-> blocks, sep |-> sep]
    /\ UNCHANGED <<heap, input, store>>

\* GraphService._extract_examples(text) on another reply.
ExtractFromText(text) ==
    /\ call.name = "init"
    /\ result' = [examples |-> extract_examples(text)]
    /\ call' = [name |-> "extract_from_text", text |-> text]
    /\ UNCHANGED <<heap, input, store>>

RECURSIVE IntStr(_)
\* str(n) for a natural number, digit by digit.
IntStr(n) ==
    IF n < 10 THEN <<Digits[n + 1]>> ELSE IntStr(n \div 10) \o <<Digits[(n % 10) + 1]>>

\* `if key in context_params: context_query += f"{before}{value}{after}"`
AddParam(context_query, context_params, key, before, after) ==
    IF key \in DOMAIN context_params
    THEN context_query \o before \o context_params[key] \o after
    ELSE context_query

\* ContextQuery testing industry before maturity_stage.
ContextQueryIndustryFirst(query, context_params) ==
    AddParam(
        AddParam(
            AddParam(
                AddParam(query \o <<" for ">>, context_params,
                         "company_size", <<>>, <<" sized company ">>),
                context_params, "industry", <<"in ">>, <<" industry ">>),
            context_params, "maturity_stage", <<"in ">>, <<" stage ">>),
        context_params, "management_challenge", <<"facing ">>, <<" challenge ">>)

\* The query generate_context searches with, its four tests in their order.
ContextQuery(query, context_params) ==
    AddParam(
        AddParam(
            AddParam(
                AddParam(query \o <<" for ">>, context_params,
                         "company_size", <<>>, <<" sized company ">>),
                context_params, "maturity_stage", <<"in ">>, <<" stage ">>),
            context_params, "industry", <<"in ">>, <<" industry ">>),
        context_params, "management_challenge", <<"facing ">>, <<" challenge ">>)

RECURSIVE JoinPassages(_, _)
\* "\n\n".join(f"PASSAGE {i+1}:\n{chunk['text']}" ...) from the chunk at
\* position k on.
JoinPassages(chunks, k) ==
    IF k > Len(chunks)
    THEN <<>>
    ELSE (IF k > 1 THEN <<"\n", "\n">> ELSE <<>>) \o
         <<"PASSAGE ">> \o IntStr(k) \o <<":", "\n">> \o chunks[k].text \o
         JoinPassages(chunks, k + 1)

\* The query of generate_context's search: context_params None, {} or a
\* dict.
SearchQuery(query, context_params) ==
    IF context_params # NoneVal /\ DOMAIN context_params # {}
    THEN ContextQuery(query, context_params)
    ELSE query

\* RAGService.generate_context, chunks what embedding_service.search
\* returns: [text |-> the context, search_query and limit |-> the arguments
\* of the search, searches |-> search calls made].
generate_context(query, context_params, max_chunks, chunks) ==
    [text |-> IF chunks = <<>>
              THEN <<"No relevant information found.">>
              ELSE JoinPassages(chunks, 1),
     search_query |-> SearchQuery(query, context_params),
     limit |-> max_chunks,
     searches |-> 1]

\* The keys generate_context reads.
ContextKeys == {"company_size", "maturity_stage", "industry", "management_challenge"}

\* The value a caller gives each key.
ContextValues ==
    [company_size |-> <<"small">>, maturity_stage |-> <<"growth">>,
     industry |-> <<"retail">>, management_challenge |-> <<"turnover">>,
     min_relevance |-> <<"7">>]

\* context_params values: None, and the dicts over the keys read and over
\* one key not read.
ContextParamArgs ==
    {NoneVal} \cup
    {[k \in ks |-> ContextValues[k]] : ks \in SUBSET ContextKeys} \cup
    {[k \in {"min_relevance"} |-> ContextValues[k]]}

\* What the search returns: no chunk, one, or two in either order.
ChunkLists ==
    {<<>>, <<[text |-> <<"A", " ", "a">>]>>,
     <<[text |-> <<"A", " ", "a">>], [text |-> <<"B", "\n", "b">>]>>,
     <<[text |-> <<"B", "\n", "b">>], [text |-> <<"A", " ", "a">>]>>}

\* RAGService.generate_context(query, context_params, max_chunks)
GenerateContext(query, context_params, max_chunks, chunks) ==
    /\ call.name = "init"
    /\ LET r == generate_context(query, context_params, max_chunks, chunks)
       IN  /\ result' = [context |-> r.text]
           /\ call' = [name |-> "generate_context", query |-> query,
                       context_params |-> context_params, max_chunks |-> max_chunks,
                       chunks |-> chunks, search_query |-> r.search_query,
                       limit |-> r.limit, searches |-> r.searches]
    /\ UNCHANGED <<heap, input, store>>

NextText ==
    \/ \E cp \in ContextParamArgs, m \in {2, 8}, c \in ChunkLists :
          GenerateContext(<<"How to grow?">>, cp, m, c)
    \/ \E t \in ScoreTexts, d \in ScoreTexts, q \in ScoreTexts : CalculateRelevance(t, d, q)
    \/ \E b \in BlockSeqs, sep \in {<<"\n">>, <<"\n", "\n">>} : ExtractExamples(b, sep)
    \/ \E b \in BlockSeqs, sep \in {<<"\n">>, <<"\n", "\n">>} : ChatExtractExamples(b, sep)
    \/ \E t \in OtherTexts : ExtractFromText(t)

SpecText == InitText /\ [][NextText]_vars

\* ------------------------------------------------- the routes, in sequence
\* Requests against one stored graph, one after another and in any order.
\* `heap` holds the objects of the stored graph_data, which every request is
\* handed; what a request allocates besides is dropped when it ends.
\* `input` is the tree last written, by the creation or by update_graph.

\* Graph.get_by_id with the store answering (ok) or find_one raising.
StoreGetById(gs, graph_id, ok) ==
    IF ok THEN Graph_get_by_id(gs, graph_id) ELSE [raised |-> TRUE, doc |-> NoneVal]

\* jsonify(body), status
Response(status, body) == [status |-> status, body |-> body]

ErrorResponse(status, msg) == Response(status, [error |-> msg])

\* `if not result: return jsonify({"error": msg}), 404`, else the tree, 200.
\* r is [heap, ret] as a filter returns it.
TreeResponse(r, msg) ==
    [heap |-> r.heap,
     response |-> IF r.ret = Null
                  THEN ErrorResponse(404, msg)
                  ELSE Response(200, TreeValue(r.heap, r.ret))]

\* int(layer) of a query-string value: an optional sign, then digits.
IntOfStr(chars) ==
    IF chars # <<>> /\ Head(chars) = "-"
    THEN [ok |-> PyInt(StrArg(Tail(chars))).ok, n |-> 0 - PyInt(StrArg(Tail(chars))).n]
    ELSE PyInt(StrArg(chars))

\* Graph.get_connections on flat connection records: those of the graph.
ConnectionsOf(cs, graph_id) == SelectSeq(cs, LAMBDA c : c.graph_id = graph_id)

\* The route get_graph asked for connections: get_graph_with_connections
\* from `if not graph:` on, and the answer; graph is the outcome of
\* Graph.get_by_id.
get_graph_with_connections(h, cs, graph, graph_id) ==
    IF graph.raised \/ graph.doc = NoneVal
    THEN ErrorResponse(404, "Graph not found")
    ELSE Response(200, [graph |-> TreeValue(h, graph.doc.graph_data),
                        connections |-> ConnectionsOf(cs, graph_id)])

\* GraphService.get_graph_by_layer with a layer given, graph_data being
\* what get_graph returned.
get_graph_by_layer(h, graph_data, layer) ==
    IF graph_data = Null
    THEN [heap |-> h, ret |-> Null]
    ELSE filter_graph_by_layer(h, graph_data, layer)

\* The route get_graph: [heap, response].  layer is the query-string value
\* (NoneVal without one).
get_graph_route(h, gs, cs, graph_id, include_connections, layer, ok) ==
    IF include_connections
    THEN [heap |-> h,
          response |-> get_graph_with_connections(h, cs, StoreGetById(gs, graph_id, ok),
                                                  graph_id)]
    ELSE IF layer # NoneVal
    THEN IF IntOfStr(layer.chars).ok
         THEN TreeResponse(get_graph_by_layer(h, GraphDataOf(StoreGetById(gs, graph_id, ok)),
                                              IntOfStr(layer.chars).n),
                           "Graph not found")
         ELSE [heap |-> h, response |-> ErrorResponse(500, "invalid literal for int()")]
    ELSE TreeResponse([heap |-> h, ret |-> GraphDataOf(StoreGetById(gs, graph_id, ok))],
                      "Graph not found")

\* The route filter_graph: [heap, response].  data is request.json.
filter_graph_route(h, gs, graph_id, data, ok) ==
    IF ~TruthyDict(data)
    THEN [heap |-> h, response |-> ErrorResponse(400, "Context parameters are required")]
    ELSE TreeResponse(get_filtered_graph(h, GraphDataOf(StoreGetById(gs, graph_id, ok)),
                                         Get(data, "context_params", <<>>)),
                      "Graph not found or could not be filtered")

\* The body of a node_details response.
NodeDetails(h, node_info, conns) ==
    [node |-> TreeValue(h, node_info.node), level |-> node_info.level,
     path |-> [i \in DOMAIN node_info.path |-> h[node_info.path[i]].id],
     examples |-> node_info.examples, connections |-> conns]

\* The route get_node from `if not node_details:` on.
NodeResponse(h, cs, graph_id, node_id, include_connections, conn_ok, node_details) ==
    IF node_details.ret = NoneVal
    THEN ErrorResponse(404, "Node not found")
    ELSE Response(200,
                  NodeDetails(h, node_details.ret,
                              IF include_connections
                              THEN get_node_connections(cs, graph_id, node_id, conn_ok)
                              ELSE <<>>))

\* The route get_node from `if not graph_data:` on.
NodeOfGraph(h, cs, graph_data, graph_id, node_id, include_connections, conn_ok, completion) ==
    IF graph_data = Null
    THEN ErrorResponse(404, "Graph not found")
    ELSE NodeResponse(h, cs, graph_id, node_id, include_connections, conn_ok,
                      extract_node_details(h, graph_data, node_id, completion))

\* The route get_node: the response.
get_node_route(h, gs, cs, graph_id, node_id, include_connections, conn_ok, completion, ok) ==
    NodeOfGraph(h, cs, GraphDataOf(StoreGetById(gs, graph_id, ok)), graph_id, node_id,
                include_connections, conn_ok, completion)

\* GraphService.update_graph: [ret |-> True or False, written |-> whether a
\* record was replaced].  update_one on an id of no record replaces none.
update_graph(gs, graph_id, ok) ==
    IF ~ok \/ graph_id = MalformedId
    THEN [ret |-> FALSE, written |-> FALSE]
    ELSE [ret |-> TRUE, written |-> graph_id \in DOMAIN gs]

\* ------------------------------------------------- inputs of the routes

\* The trees written: roots of layer 0 and of layer 1, with and without
\* examples.
OpsTrees ==
    {ScenarioTree,
     <<GraphNode("n1", <<"t1">>, 1, 7, <<2, 3>>, <<>>),
       GraphNode("n2", <<"t2">>, 2, 8, <<>>, <<>>),
       GraphNode("n3", <<"t3">>, 3, 4, <<>>, <<>>)>>,
     <<GraphNode("n1", <<"t1">>, 0, 10, <<2>>,
                 <<[title |-> <<"IBM">>, description |-> <<"They", " ", "pivoted", ".">>]>>),
       GraphNode("n2", <<"t2">>, 1, 8, <<>>, <<>>)>>}

\* Values of the query-string parameter layer.
LayerParams ==
    {NoneVal, StrArg(<<"-", "1">>), StrArg(<<"0">>), StrArg(<<"1">>), StrArg(<<"2">>),
     StrArg(<<"x">>)}

\* Bodies of a filter request.
FilterBodies ==
    {NoneVal, [other |-> "x"]} \cup
    {[context_params |-> cp] :
        cp \in {<<>>, [min_relevance |-> IntArg(8)], [min_relevance |-> IntArg(11)],
                [min_relevance |-> StrArg(<<"7">>)], [min_relevance |-> StrArg(<<"h", "i">>)]}}

OpsNodeIds == {"n1", "n2", "absent"}

OpsChatIO ==
    [examples : NodeExampleCompletions, conn_ok : BOOLEAN,
     document : {[kind |-> "found", chunks |-> <<>>]},
     rag : {Completion("text", <<"It", " ", "depends", ".">>)}]

OpsQuizIO ==
    [examples : NodeExampleCompletions, conn_ok : {TRUE}, document : {"found"},
     query_text : {<<>>},
     first : {Completion("text", <<Word("Here you go:")>> \o Dump(QuizJson)),
              Completion("none", <<>>)},
     second : {Completion("none", <<>>)}]

\* ------------------------------------------------------------ the requests

InitOps ==
    /\ heap \in OpsTrees
    /\ input = heap
    /\ call = [name |-> "init"]
    /\ result = NoneVal
    /\ queries = <<>>
    /\ graphs = <<[query_id |-> 1, graph_data |-> Root]>>
    /\ connections \in {<<>>, <<RichConn("n1", "n2")>>}
    /\ req = IdleReq

\* The objects of the stored tree as a request leaves them.
Persisted(h) == SubSeq(h, 1, Len(heap))

\* What a route that filters leaves.
Answered(r) ==
    /\ heap' = Persisted(r.heap)
    /\ result' = r.response

\* GET /graph/<graph_id>
GetGraph(graph_id, include_connections, layer, ok) ==
    /\ Answered(get_graph_route(heap, graphs, connections, graph_id,
                                include_connections, layer, ok))
    /\ call' = [name |-> "get_graph", graph_id |-> graph_id, ok |-> ok,
                include_connections |-> include_connections, layer |-> layer]
    /\ UNCHANGED <<input, store>>

\* POST /graph/<graph_id>/filter
FilterGraph(graph_id, data, ok) ==
    /\ Answered(filter_graph_route(heap, graphs, graph_id, data, ok))
    /\ call' = [name |-> "filter_graph", graph_id |-> graph_id, ok |-> ok, data |-> data]
    /\ UNCHANGED <<input, store>>

\* GET /node/<graph_id>/<node_id>
GetNode(graph_id, node_id, include_connections, conn_ok, completion, ok) ==
    /\ result' = get_node_route(heap, graphs, connections, graph_id, node_id,
                                include_connections, conn_ok, completion, ok)
    /\ call' = [name |-> "get_node", graph_id |-> graph_id, ok |-> ok,
                node_id |-> node_id, include_connections |-> include_connections]
    /\ UNCHANGED <<heap, input, store>>

\* POST /node-chat with its four fields, the store answering or not.
Chat(graph_id, node_id, query, io, ok) ==
    /\ result' = node_chat(ChatWithGraph(heap, connections,
                                         GraphDataOf(StoreGetById(graphs, graph_id, ok)),
                                         graph_id, node_id, query, io).ret)
    /\ call' = [name |-> "node_chat", graph_id |-> graph_id, ok |-> ok,
                node_id |-> node_id]
    /\ UNCHANGED <<heap, input, store>>

\* generate_quiz(graph_id, node_id, document_id), the store answering or not.
Quiz(graph_id, node_id, io, ok) ==
    /\ result' = [quiz |-> QuizWithGraph(heap, connections,
                                         StoreGetById(graphs, graph_id, ok),
                                         graph_id, node_id, io).ret]
    /\ call' = [name |-> "generate_quiz", graph_id |-> graph_id, ok |-> ok,
                node_id |-> node_id]
    /\ UNCHANGED <<heap, input, store>>

\* What update_graph leaves: the new tree where a record was replaced.
Updated(graph_data, r) ==
    /\ result' = [ret |-> r.ret]
    /\ heap' = IF r.written THEN graph_data ELSE heap
    /\ input' = IF r.written THEN graph_data ELSE input

\* update_graph(graph_id, graph_data)
UpdateGraph(graph_id, graph_data, ok) ==
    /\ Updated(graph_data, update_graph(graphs, graph_id, ok))
    /\ call' = [name |-> "update_graph", graph_id |-> graph_id, ok |-> ok]
    /\ UNCHANGED store

NextOps ==
    \/ \E g \in GraphIdArgs, c \in BOOLEAN, l \in LayerParams, ok \in BOOLEAN :
          GetGraph(g, c, l, ok)
    \/ \E g \in GraphIdArgs, d \in FilterBodies, ok \in BOOLEAN : FilterGraph(g, d, ok)
    \/ \E g \in GraphIdArgs, id \in OpsNodeIds, c \in BOOLEAN, k \in BOOLEAN,
          e \in NodeExampleCompletions, ok \in BOOLEAN : GetNode(g, id, c, k, e, ok)
    \/ \E g \in GraphIdArgs, id \in OpsNodeIds, io \in OpsChatIO, ok \in BOOLEAN :
          Chat(g, id, <<"How", " ", "to", " ", "grow", "?">>, io, ok)
    \/ \E g \in GraphIdArgs, id \in OpsNodeIds, io \in OpsQuizIO, ok \in BOOLEAN :
          Quiz(g, id, io, ok)
    \/ \E g \in GraphIdArgs, t \in OpsTrees, ok \in BOOLEAN : UpdateGraph(g, t, ok)

SpecOps == InitOps /\ [][NextOps]_vars

\* ------------------------------------------ what the tree claims speak of

\* The nodes b of the tree with a in the subtree under b.
AncestorsOrSelf(h, a) == {b \in NodesUnder(h, Root) : a \in NodesUnder(h, b)}

\* s is a chain of the tree: it starts at the root and each next element is
\* a child of the one before.
IsRootChain(h, s) ==
    /\ s # <<>>
    /\ s[1] = Root
    /\ \A i \in 1..(Len(s) - 1) : s[i + 1] \in Range(h[s[i]].children)

UniqueIds(h) ==
    \A a, b \in NodesUnder(h, Root) : h[a].id = h[b].id => a = b

\* The ids of the tree under a; none for Null.
IdsUnder(h, a) == IF a = Null THEN {} ELSE {h[b].id : b \in NodesUnder(h, a)}

RECURSIVE Restrict(_, _, _)
\* The tree under a, as a value, with only the children in kept, in order.
Restrict(h, a, kept) ==
    LET kids == SelectSeq(h[a].children, LAMBDA c : c \in kept)
    IN  [h[a] EXCEPT !.children = [i \in DOMAIN kids |-> Restrict(h, kids[i], kept)]]

\* The nodes whose own layer and every ancestor's layer are <= L.
KeptByLayer(h, L) ==
    {a \in NodesUnder(h, Root) : \A b \in AncestorsOrSelf(h, a) : h[b].layer <= L}

\* The nodes whose own relevance and every ancestor's relevance are >= m.
KeptByRelevance(h, m) ==
    {a \in NodesUnder(h, Root) : \A b \in AncestorsOrSelf(h, a) : h[b].relevance >= m}

\* ------------------------------------------------------------------ claims

\* C1: on a tree with unique ids, extract_node_details returns, for the id
\* of a node N, a result whose node is N, whose path is N's ancestor chain
\* from the root down to N and whose level is N's depth; for an id no node
\* carries it returns None.
C1_LookupCorrect ==
    (call.name = "extract_node_details" /\ UniqueIds(input)) =>
        IF \E a \in NodesUnder(input, Root) : input[a].id = call.node_id
        THEN /\ result # NoneVal
             /\ result.node \in NodesUnder(input, Root)
             /\ input[result.node].id = call.node_id
             /\ IsRootChain(input, result.path)
             /\ result.path[Len(result.path)] = result.node
             /\ Range(result.path) = AncestorsOrSelf(input, result.node)
             /\ result.level = Len(result.path) - 1
        ELSE result = NoneVal

\* C1 witness: a node two levels below the root was looked up and found.
C1_Witness ==
    /\ call.name = "extract_node_details"
    /\ UniqueIds(input)
    /\ result # NoneVal
    /\ result.level = 2
    /\ Len(result.path) = 3

\* C2: _filter_graph_by_layer returns exactly the nodes whose own layer and
\* every ancestor's layer are <= target_layer, each with its fields and its
\* kept children in order; None when the root itself is rejected.  A node
\* under a dropped node is gone whatever its own layer.
C2_SubtreePruning ==
    call.name = "filter_layer" =>
        IF Root \in KeptByLayer(input, call.layer)
        THEN /\ result.ret # Null
             /\ TreeValue(heap, result.ret)
                    = Restrict(input, Root, KeptByLayer(input, call.layer))
        ELSE result.ret = Null

\* C2 witness: a tree was returned and a node whose own layer passes is
\* missing from it because an ancestor was dropped.
C2_Witness ==
    /\ call.name = "filter_layer"
    /\ result.ret # Null
    /\ \E a \in NodesUnder(input, Root) :
          /\ input[a].layer <= call.layer
          /\ a \notin KeptByLayer(input, call.layer)
          /\ input[a].id \notin IdsUnder(heap, result.ret)

\* C3: filtering the tree a first _filter_graph_by_layer call returned, with
\* the same target_layer, returns a tree equal to it.
C3_Idempotent ==
    call.name = "filter_layer_again" =>
        /\ result.ret # Null
        /\ TreeValue(heap, result.ret) = TreeValue(heap, call.first)

\* C3 witness: the second application ran on a first result that had lost
\* nodes of the input and kept more than its root.
C3_Witness ==
    /\ call.name = "filter_layer_again"
    /\ result.ret # Null
    /\ TreeValue(heap, call.first) # TreeValue(input, Root)
    /\ heap[call.first].children # <<>>

\* C4: for target layers L1 <= L2 the ids of the tree returned for L1 are
\* among the ids of the tree returned for L2 (no ids when None is returned).
C4_Monotone ==
    call.name = "filter_layer_wider" =>
        IdsUnder(heap, call.first) \subseteq IdsUnder(heap, result.ret)

\* C4 witness: the narrower call kept some nodes and the wider call kept
\* strictly more.
C4_Witness ==
    /\ call.name = "filter_layer_wider"
    /\ call.narrow < call.layer
    /\ IdsUnder(heap, call.first) # {}
    /\ IdsUnder(heap, call.first) # IdsUnder(heap, result.ret)

RECURSIVE Numeral(_)
\* The decimal numeral of a natural number.
Numeral(n) == IF n < 10 THEN <<Digits[n + 1]>> ELSE Append(Numeral(n \div 10), Digits[(n % 10) + 1])

\* The caller supplied a min_relevance.
C5_Supplied == "min_relevance" \in DOMAIN call.context_params

\* The number the caller's min_relevance is: an integer, or the number a
\* numeral writes.
C5_IsNumber ==
    \/ call.context_params.min_relevance.kind = "int"
    \/ \E n \in 0..99 : Numeral(n) = call.context_params.min_relevance.chars

\* The threshold C5 states: the caller's min_relevance, 5 without one.
C5_Threshold ==
    IF C5_Supplied
    THEN IF call.context_params.min_relevance.kind = "int"
         THEN call.context_params.min_relevance.n
         ELSE CHOOSE n \in 0..99 : Numeral(n) = call.context_params.min_relevance.chars
    ELSE 5

C6_FiltersPure ==
    call.name \in {"filter_layer", "get_filtered_graph"} =>
        /\ Len(heap) >= Len(input)
        /\ SubSeq(heap, 1, Len(input)) = input

\* C6 witness: a filter returned a tree whose root copy has fewer children
\* than the input root, which still has all of its own.
C6_Witness ==
    /\ call.name \in {"filter_layer", "get_filtered_graph"}
    /\ result.ret # Null
    /\ Len(heap[result.ret].children) < Len(input[Root].children)
    /\ heap[Root].children = input[Root].children

\* --------------------------------------- what the synthesis claims speak of

\* The text holds a '{' with a '}' somewhere after it.
HasBracePair(text) ==
    \E i, j \in DOMAIN text : i < j /\ text[i] = LBrace /\ text[j] = RBrace

\* The text from its first '{' to its last '}', both included.
BraceSpan(text) ==
    LET first == CHOOSE i \in DOMAIN text :
                     text[i] = LBrace /\ \A k \in DOMAIN text : text[k] = LBrace => i <= k
        last == CHOOSE j \in DOMAIN text :
                     text[j] = RBrace /\ \A k \in DOMAIN text : text[k] = RBrace => k <= j
    IN  SubSeq(text, first, last)

\* A failure of synthesis: retrieval or the completion raised, the text has
\* no brace pair, or its brace span is not JSON.
SynthesisFailure(c) ==
    \/ c.context_raises
    \/ c.completion.raises
    \/ ~HasBracePair(c.completion.text)
    \/ ~json_loads(BraceSpan(c.completion.text)).ok

RECURSIVE JNodes(_)
RECURSIVE JNodesOfAll(_)
\* The node dicts reachable from v through "children" lists, pre-order.
JNodes(v) ==
    IF v.type # "obj" THEN <<>>
    ELSE <<v>> \o (IF HasKey(v, "children") /\ Item(v, "children").type = "arr"
                   THEN JNodesOfAll(Item(v, "children").items)
                   ELSE <<>>)

JNodesOfAll(items) ==
    IF items = <<>> THEN <<>> ELSE JNodes(Head(items)) \o JNodesOfAll(Tail(items))

\* No two nodes reachable from v carry the same id.
JUniqueIds(v) ==
    LET ns == JNodes(v)
    IN  \A i, j \in DOMAIN ns :
            (i # j /\ HasKey(ns[i], "id") /\ HasKey(ns[j], "id"))
                => Item(ns[i], "id") # Item(ns[j], "id")

HasStr(v, key) == HasKey(v, key) /\ Item(v, key).type = "str"

HasNumIn(v, key, lo, hi) ==
    HasKey(v, key) /\ Item(v, key).type = "num" /\ Item(v, key).n \in lo..hi

\* v is a GraphNode tree of the data model.
IsGraphNodeTree(v) ==
    /\ v.type = "obj"
    /\ \A n \in Range(JNodes(v)) :
          /\ HasStr(n, "id") /\ HasStr(n, "title") /\ HasStr(n, "description")
          /\ HasNumIn(n, "layer", 0, 4)
          /\ HasNumIn(n, "relevance", 1, 10)
          /\ HasKey(n, "children") /\ Item(n, "children").type = "arr"
          /\ \A c \in Range(Item(n, "children").items) : c.type = "obj"

\* C7: whenever retrieval raises, the completion raises, the text has no
\* brace pair or its brace span is not JSON, generate_layered_graph returns
\* the fallback tree (root titled with the query, layer 0, children
\* env_analysis, strategy, organization, implementation) and no connection.
C7_FailureYieldsFallback ==
    (call.name = "generate_layered_graph" /\ SynthesisFailure(call)) =>
        /\ result.connections = JArr(<<>>)
        /\ result.graph.type = "obj"
        /\ Item(result.graph, "title") = JStr(call.query)
        /\ Item(result.graph, "layer") = JNum(0)
        /\ [i \in 1..Len(Item(result.graph, "children").items) |->
                Item(Item(result.graph, "children").items[i], "id")]
             = <<JStr("env_analysis"), JStr("strategy"), JStr("organization"),
                 JStr("implementation")>>

\* C7 witness: a completion that returned text with braces that is not JSON
\* was answered with the fallback tree.
C7_Witness ==
    /\ call.name = "generate_layered_graph"
    /\ ~call.context_raises
    /\ ~call.completion.raises
    /\ HasBracePair(call.completion.text)
    /\ ~json_loads(BraceSpan(call.completion.text)).ok
    /\ Item(result.graph, "id") = JStr("root")

\* The parsed object of a successful call.
C8_Parsed == json_loads(BraceSpan(call.completion.text)).val

\* C8: when the brace span parses to an object P the result is (P.graph,
\* P.connections) if P has both keys, (P.graph, []) if it has only graph,
\* and (P, []) otherwise.
C8_ShapeResolution ==
    (call.name = "generate_layered_graph" /\ ~SynthesisFailure(call)) =>
        IF HasKey(C8_Parsed, "graph") /\ HasKey(C8_Parsed, "connections")
        THEN /\ result.graph = Item(C8_Parsed, "graph")
             /\ result.connections = Item(C8_Parsed, "connections")
        ELSE IF HasKey(C8_Parsed, "graph")
             THEN /\ result.graph = Item(C8_Parsed, "graph")
                  /\ result.connections = JArr(<<>>)
             ELSE /\ result.graph = C8_Parsed
                  /\ result.connections = JArr(<<>>)

\* C8 witness: an object with only a connections key was returned whole as
\* the graph.
C8_Witness ==
    /\ call.name = "generate_layered_graph"
    /\ ~SynthesisFailure(call)
    /\ HasKey(C8_Parsed, "connections")
    /\ ~HasKey(C8_Parsed, "graph")
    /\ result.graph = C8_Parsed
    /\ result.connections = JArr(<<>>)

\* C9: in every graph generate_layered_graph returns and every graph_data
\* generate_graph_for_query persists, the fallback tree included, the nodes
\* reachable from the root have pairwise distinct ids.
C9_UniqueIds ==
    /\ call.name = "generate_layered_graph" => JUniqueIds(result.graph)
    /\ \A g \in DOMAIN graphs : JUniqueIds(graphs[g].graph_data)

\* C10: every root generate_layered_graph returns and every graph_data
\* generate_graph_for_query persists is a GraphNode tree: id, title,
\* description, layer in 0..4, relevance in 1..10 and children, at each node.
C10_ValidatedTree ==
    /\ (call.name = "generate_layered_graph" /\ JTruthy(result.graph))
            => IsGraphNodeTree(result.graph)
    /\ \A g \in DOMAIN graphs : IsGraphNodeTree(graphs[g].graph_data)

\* C14: generate_examples_for_node returns the examples a node carries as
\* they are and without a completion call; when the node carries none and
\* the completion call raises, it returns the two default examples, titled
\* Generic Application and Implementation Example, their descriptions
\* holding the node's title.  It returns a list in every case.
C14_EnsureExamples ==
    (call.name \in {"extract_node_details", "extract_node_details_again"}
        /\ result # NoneVal) =>
        LET node == input[result.node]
        IN  /\ DOMAIN result.examples = 1..Len(result.examples)
            /\ node.examples # <<>> =>
                  /\ result.examples = node.examples
                  /\ ~call.called
            /\ (node.examples = <<>> /\ call.completion.kind = "raises") =>
                  /\ call.called
                  /\ Len(result.examples) = 2
                  /\ result.examples[1].title = <<"Generic", " ", "Application">>
                  /\ result.examples[2].title = <<"Implementation", " ", "Example">>
                  /\ \A i \in 1..2 : OccursAt(result.examples[i].description, node.title, 2)

\* C14 witness: the completion call raised for a node without examples and
\* the two defaults came back.
C14_Witness ==
    /\ call.name = "extract_node_details"
    /\ result # NoneVal
    /\ input[result.node].examples = <<>>
    /\ call.completion.kind = "raises"
    /\ result.examples = generate_default_examples(input[result.node].title)

\* C15: once extract_node_details has generated examples for a node that
\* carried none, a later call for the same node of the same graph makes no
\* completion call and returns the same examples.
C15_CachedOntoNode ==
    (call.name = "extract_node_details_again"
        /\ call.first_called /\ call.first.examples # <<>>) =>
        /\ ~call.called
        /\ result.examples = call.first.examples

\* The nodes visited after the first node with the id in the depth-first
\* pre-order of the tree, the root (depth 0) left out; none when no node
\* has the id.
C11_VisitedAfter(h, node_id) ==
    LET order == Preorder(h, Root)
        at == {i \in DOMAIN order : h[order[i]].id = node_id}
    IN  IF at = {}
        THEN {}
        ELSE LET first == CHOOSE i \in at : \A k \in at : i <= k
             IN  {order[i] : i \in (first + 1)..Len(order)} \ {Root}

\* C11: _find_related_nodes returns the 3 best scored, highest first, of
\* the nodes visited after the target in the depth-first pre-order at
\* depth > 0, each with its Jaccard score against the query; the list is
\* non-empty whenever such a node exists.
C11_RelatedNodes ==
    call.name = "find_related_nodes" =>
        LET after == C11_VisitedAfter(input, call.node_id)
            r == result.related_nodes
        IN  /\ Len(r) = Min(3, Cardinality(after))
            /\ after # {} => r # <<>>
            /\ \A i \in DOMAIN r :
                  \E a \in after :
                     /\ r[i].id = input[a].id
                     /\ r[i].relevance =
                           calculate_relevance(input[a].title, input[a].description,
                                               call.query)
            /\ \A i \in DOMAIN r : i < Len(r) => r[i].relevance >= r[i + 1].relevance
            /\ \A a \in after :
                  \/ \E i \in DOMAIN r : r[i].id = input[a].id
                  \/ \A i \in DOMAIN r :
                        r[i].relevance >=
                           calculate_relevance(input[a].title, input[a].description,
                                               call.query)

\* The scoring of the specification's instance: title "bad apple",
\* description "good apple", query "apple".
C12_Instance ==
    /\ call.name = "calculate_relevance"
    /\ call.title = <<"bad", " ", "apple">>
    /\ call.description = <<"good", " ", "apple">>
    /\ call.query = <<"apple">>

\* C12 (as amended): the words of title and description together are
\* {bad, apple, good}, so the score of the instance is 1/3, rounded 0.33
\* (33 hundredths).
C12_JaccardInstance == C12_Instance => result.score = 33

\* C12 witness: the instance was scored.
C12_Witness == C12_Instance /\ result.score = 33

\* C12 as the specification states it: the score of the instance is 0.5.
C12_ScoreIsHalf == C12_Instance => result.score = 50

\* C13: from a text of k >= 1 blocks `Example: <title>`, newline, body,
\* both _extract_examples give k examples in order, each with its block's
\* title and the whole trimmed body of the block.
C13_ExtractionRoundTrip ==
    call.name \in {"extract_examples", "chat_extract_examples"} =>
        /\ Len(result.examples) = Len(call.blocks)
        /\ \A i \in DOMAIN call.blocks :
              i \in DOMAIN result.examples =>
                 /\ result.examples[i].title = call.blocks[i].title
                 /\ result.examples[i].description = Strip(call.blocks[i].body)

\* The completion answered with text in which no JSON object with a
\* questions key can be read (from its first '{' to its last '}').
C16_TextWithoutQuiz(c) ==
    /\ c.kind = "text"
    /\ ~ /\ HasBracePair(c.content)
         /\ json_loads(BraceSpan(c.content)).ok
         /\ HasKey(json_loads(BraceSpan(c.content)).val, "questions")

\* generate_quiz came to generate questions and both prompts were answered
\* with text holding no quiz.
C16_BothWithoutQuiz ==
    /\ call.name = "generate_quiz"
    /\ result.built
    /\ C16_TextWithoutQuiz(call.io.first)
    /\ C16_TextWithoutQuiz(call.io.second)

\* C16: when the model answers the full prompt and the simplified retry
\* with text holding no JSON object with a questions key, generate_quiz
\* returns a dict with exactly one placeholder question and a non-empty
\* error string; generate_quiz returns a dict in every case.
C16_QuizFallback ==
    /\ call.name = "generate_quiz" => result.quiz.type = "obj"
    /\ C16_BothWithoutQuiz =>
          /\ call.calls = 2
          /\ HasKey(result.quiz, "questions")
          /\ Item(result.quiz, "questions").type = "arr"
          /\ Len(Item(result.quiz, "questions").items) = 1
          /\ Item(result.quiz, "questions").items[1] = PlaceholderQuiz.vals[1].items[1]
          /\ HasKey(result.quiz, "error")
          /\ Item(result.quiz, "error").type = "str"
          /\ Item(result.quiz, "error").s # ""

\* C16 witness: both prompts were answered without a quiz and the
\* placeholder came back.
C16_Witness == C16_BothWithoutQuiz /\ result.quiz = PlaceholderQuiz

\* The first generation failed: a context was built and the simplified
\* retry was made.
C17_RetryRaised ==
    /\ call.name = "generate_quiz"
    /\ result.built
    /\ call.calls = 2
    /\ call.io.second.kind = "raises"

\* C17: when the first generation failed and the completion call of the
\* simplified retry raises, generate_quiz returns
\* {error: "Quiz generation failed completely"}, without a questions key.
C17_LastResort ==
    C17_RetryRaised =>
        /\ result.quiz = ErrorDict("Quiz generation failed completely")
        /\ ~HasKey(result.quiz, "questions")

\* Whether part occurs in text.
C18_Occurs(text, part) == \E i \in 1..Len(text) : OccursAt(text, part, i)

\* The tree's nodes carrying the id.
C18_NodesWithId(id) == {a \in NodesUnder(input, Root) : input[a].id = id}

\* The id at the other end of a stored connection of the node.
C18_OtherEnd(conn, node_id) ==
    IF conn.target_id = node_id THEN conn.source_id ELSE conn.target_id

\* generate_quiz was asked about a node of the stored graph, the document
\* was found and the connections were read.
C18_ExistingNode ==
    /\ call.name = "generate_quiz"
    /\ call.graph_id \in DOMAIN graphs
    /\ C18_NodesWithId(call.node_id) # {}
    /\ "document" \in DOMAIN call.io
    /\ call.io.document = "found"
    /\ "conn_ok" \in DOMAIN call.io
    /\ call.io.conn_ok

\* C18: for an existing graph, node and document, generate_quiz builds a
\* context, whatever the number of stored connections of the node; the
\* context holds the node's title and description and, for every stored
\* connection of the node, the description (cut to 100 characters) of the
\* node at the other end.
C18_QuizContext ==
    C18_ExistingNode =>
        /\ result.built
        /\ \E a \in C18_NodesWithId(call.node_id) :
              /\ C18_Occurs(result.context, input[a].title)
              /\ C18_Occurs(result.context, input[a].description)
        /\ \A i \in DOMAIN connections :
              LET conn == connections[i]
              IN  (conn.graph_id = call.graph_id
                      /\ call.node_id \in {conn.source_id, conn.target_id}) =>
                     \A a \in C18_NodesWithId(C18_OtherEnd(conn, call.node_id)) :
                        C18_Occurs(result.context, ShortDesc(input[a].description))

\* A chat request with its fields about a node of the stored graph, the
\* content of the completion, when one was asked for, not None.
C19_ExistingNode ==
    /\ call.name = "node_chat"
    /\ call.has_fields
    /\ call.graph_id \in DOMAIN graphs
    /\ C18_NodesWithId(call.node_id) # {}
    /\ "rag" \in DOMAIN call.io => call.io.rag.kind # "none"
    /\ \A i \in DOMAIN connections :
          {"source_id", "target_id", "relationship_type", "description"}
              \subseteq DOMAIN connections[i]

\* C19: when the graph id resolves and the node id is in the tree, chat
\* answers with response, examples, related nodes and suggested questions
\* and without an error, for any number of stored connections of the node
\* and also when the completion call raises.
C19_ChatAnswers ==
    C19_ExistingNode =>
        /\ result.status = 200
        /\ "error" \notin DOMAIN result.body
        /\ {"response", "examples", "related_nodes", "suggested_questions"}
              \subseteq DOMAIN result.body

\* What the route answers when something is not found.
C20_NotFound(msg) == [body |-> [error |-> msg], status |-> 404]

\* C20: chat answers 'Graph not found' with status 404 when the graph id
\* does not resolve, and 'Node not found' with status 404 when it does but
\* no node of the tree has the node id; in both cases without a search
\* call and without a completion call.
C20_ChatNotFound ==
    (call.name = "node_chat" /\ call.has_fields) =>
        /\ call.graph_id \notin DOMAIN graphs =>
              /\ result = C20_NotFound("Graph not found")
              /\ call.searches = 0
              /\ call.completions = 0
        /\ (call.graph_id \in DOMAIN graphs /\ C18_NodesWithId(call.node_id) = {}) =>
              /\ result = C20_NotFound("Node not found")
              /\ call.searches = 0
              /\ call.completions = 0

\* C20 witness: a chat about a node id no node of the stored graph carries
\* was answered 'Node not found'.
C20_Witness ==
    /\ call.name = "node_chat"
    /\ call.has_fields
    /\ call.graph_id \in DOMAIN graphs
    /\ C18_NodesWithId(call.node_id) = {}
    /\ result = C20_NotFound("Node not found")

\* The positions of the Graph records of a query.
C22_GraphsOf(q) == {g \in DOMAIN graphs : graphs[g].query_id = q}

\* The stored connections of a graph, in the order they were inserted.
C22_StoredOf(g) ==
    LET stored == SelectSeq(connections, LAMBDA c : c.graph_id = g)
    IN  [i \in DOMAIN stored |-> stored[i].connection]

\* C22: in every reachable state a query whose status is failed has no
\* Graph record and no stored connection, and every query has at most one
\* Graph record.
C22_FailedHasNoGraph ==
    \A q \in DOMAIN queries :
        /\ Cardinality(C22_GraphsOf(q)) <= 1
        /\ queries[q].status = "failed" =>
              /\ C22_GraphsOf(q) = {}
              /\ \A i \in DOMAIN connections :
                    connections[i].graph_id \notin C22_GraphsOf(q)

\* Every completed query names a Graph record of its own.
C24_Linked ==
    \A q \in DOMAIN queries :
        queries[q].status = "completed" =>
            /\ queries[q].graph_id \in DOMAIN graphs
            /\ graphs[queries[q].graph_id].query_id = q
            /\ C22_GraphsOf(q) = {queries[q].graph_id}

\* The query of the invocation at hand, once completed, has all the
\* connections synthesis returned stored for its graph, in their order.
C24_AllStored ==
    (req.query_id \in DOMAIN queries /\ queries[req.query_id].status = "completed") =>
        /\ queries[req.query_id].graph_id = req.graph_id
        /\ C22_StoredOf(req.graph_id) =
              (IF JTruthy(req.connections) THEN IterItems(req.connections) ELSE <<>>)

\* A step changes the status of a query only from processing, to completed
\* or failed; a query record is never removed.
C24_StatusStep ==
    /\ Len(queries') >= Len(queries)
    /\ \A q \in DOMAIN queries :
          queries'[q].status # queries[q].status =>
             /\ queries[q].status = "processing"
             /\ queries'[q].status \in {"completed", "failed"}

\* C24: in every reachable state a completed query has a graph_id naming a
\* Graph record whose query_id is that query and whose stored connections
\* are all the connections synthesis returned; a status only ever moves
\* from processing to completed or failed.
C24_CompletedIsLinked == [](C24_Linked /\ C24_AllStored) /\ [][C24_StatusStep]_vars

\* C24 witness: a query completed with two connections stored for its graph.
C24_Witness ==
    /\ req.pc = "done"
    /\ req.query_id \in DOMAIN queries
    /\ queries[req.query_id].status = "completed"
    /\ Len(C22_StoredOf(req.graph_id)) = 2

\* C28: an invocation of generate_graph_for_query that created a query
\* record returns without raising and leaves the query completed or
\* failed, never processing.
C28_SettlesQuery ==
    (req.pc = "done" /\ req.query_id # 0) =>
        /\ ~req.ret.raised
        /\ queries[req.query_id].status \in {"completed", "failed"}

\* The connections synthesis returned for the graph a reader loaded, when
\* the invocation at hand is the one that created it.
C27_Returned ==
    IF JTruthy(req.connections) /\ req.connections.type = "arr"
    THEN req.connections.items
    ELSE <<>>

\* C27: a reader that loaded a graph, by graph id or by query id, and then
\* loads its connections gets the whole list of connections synthesis
\* returned for it, never none or a prefix of it.
C27_ConnectionsWithGraph ==
    (call.name = "get_connections" /\ call.graph_id = req.graph_id) =>
        result.connections = C27_Returned

\* The first reply of a quiz request yields an object with a questions key.
C25_FirstYieldsQuiz ==
    /\ call.io.first.kind = "text"
    /\ ~C16_TextWithoutQuiz(call.io.first)

\* The completion calls a chat about the node may make: one for its
\* examples when it carries none, one for the answer.
C25_ChatCalls ==
    IF \E a \in C18_NodesWithId(call.node_id) : input[a].examples # <<>>
    THEN 1
    ELSE 2

C26_FirstInPreorder(h, id) ==
    LET order == Preorder(h, Root)
        at == {i \in DOMAIN order : h[order[i]].id = id}
    IN  order[CHOOSE i \in at : \A k \in at : i <= k]

\* The two nodes of the fallback tree with the id implementation: the
\* layer-1 child of the root and its own layer-2 child.
C26_Upper ==
    CHOOSE a \in Range(FallbackTree[Root].children) : FallbackTree[a].id = "implementation"

C26_Lower ==
    CHOOSE a \in Range(FallbackTree[C26_Upper].children) :
        FallbackTree[a].id = "implementation"

\* C26: when several nodes share an id, extract_node_details returns the
\* one that comes first in depth-first pre-order; in the fallback tree the
\* id implementation gives the layer-1 node with path [root, that node]
\* and level 1, and no lookup returns the layer-2 node with that id.
C26_FirstMatchWins ==
    call.name = "extract_node_details" =>
        /\ C18_NodesWithId(call.node_id) # {} =>
              /\ result # NoneVal
              /\ result.node = C26_FirstInPreorder(input, call.node_id)
        /\ input = FallbackTree =>
              /\ input[C26_Upper].id = "implementation" /\ input[C26_Upper].layer = 1
              /\ input[C26_Lower].id = "implementation" /\ input[C26_Lower].layer = 2
              /\ result # NoneVal => result.node # C26_Lower
              /\ call.node_id = "implementation" =>
                    /\ result # NoneVal
                    /\ result.node = C26_Upper
                    /\ result.path = <<Root, C26_Upper>>
                    /\ result.level = 1

\* C26 witness: implementation was looked up in the fallback tree and the
\* layer-1 node came back.
C26_Witness ==
    /\ call.name = "extract_node_details"
    /\ input = FallbackTree
    /\ call.node_id = "implementation"
    /\ result # NoneVal
    /\ result.node = C26_Upper

\* What generate_context wraps a given parameter in.
C30_Wording ==
    [company_size |-> [before |-> <<>>, after |-> <<" sized company ">>],
     maturity_stage |-> [before |-> <<"in ">>, after |-> <<" stage ">>],
     industry |-> [before |-> <<"in ">>, after |-> <<" industry ">>],
     management_challenge |-> [before |-> <<"facing ">>, after |-> <<" challenge ">>]]

\* The fixed order of the parameters.
C30_Order == <<"company_size", "maturity_stage", "industry", "management_challenge">>

RECURSIVE C30_Appended(_, _)
\* The wordings of the parameters of C30_Order from position k on that the
\* caller gave.
C30_Appended(params, k) ==
    IF k > Len(C30_Order)
    THEN <<>>
    ELSE (IF C30_Order[k] \in DOMAIN params
          THEN C30_Wording[C30_Order[k]].before \o params[C30_Order[k]] \o
               C30_Wording[C30_Order[k]].after
          ELSE <<>>) \o C30_Appended(params, k + 1)

\* The passage of position i, labelled.
C30_Passage(i) == <<"PASSAGE ", Numeral(i)[1], ":", "\n">> \o call.chunks[i].text

RECURSIVE C30_Labelled(_)
\* The first n passages in the order of the search, a blank line between
\* two of them.
C30_Labelled(n) ==
    IF n = 1
    THEN C30_Passage(1)
    ELSE C30_Labelled(n - 1) \o <<"\n", "\n">> \o C30_Passage(n)

\* C30: generate_context returns the sentinel 'No relevant information
\* found.' exactly when the search returns no passage, and otherwise the
\* passages labelled PASSAGE 1 .. PASSAGE n in the order of the search,
\* joined by blank lines; the search is called once, with limit max_chunks
\* and with the query followed by company_size, maturity_stage, industry
\* and management_challenge in that order, each only if present.
C30_RetrievalAdapter ==
    call.name = "generate_context" =>
        /\ result.context = <<"No relevant information found.">> <=> call.chunks = <<>>
        /\ call.chunks # <<>> => result.context = C30_Labelled(Len(call.chunks))
        /\ call.searches = 1
        /\ call.limit = call.max_chunks
        /\ call.search_query =
              IF call.context_params = NoneVal \/ DOMAIN call.context_params = {}
              THEN call.query
              ELSE call.query \o <<" for ">> \o C30_Appended(call.context_params, 1)

\* C30 witness: two passages came back for a query with a maturity stage
\* and an industry.
C30_Witness ==
    /\ call.name = "generate_context"
    /\ Len(call.chunks) = 2
    /\ {"maturity_stage", "industry"} \subseteq DOMAIN call.context_params
    /\ result.context = C30_Labelled(2)

\* A graph id of no stored graph.
C29_UnresolvedId == Len(graphs) + 1

\* The last request asked an existing graph for a layer below its root's.
C29_LayerBelowRoot ==
    /\ call.name = "get_graph"
    /\ call.ok /\ call.graph_id \in DOMAIN graphs
    /\ ~call.include_connections /\ call.layer # NoneVal
    /\ IntOfStr(call.layer.chars).ok
    /\ IntOfStr(call.layer.chars).n < heap[graphs[call.graph_id].graph_data].layer

\* The last request asked an existing graph for a relevance above its root's.
C29_RelevanceAboveRoot ==
    /\ call.name = "filter_graph"
    /\ call.ok /\ call.graph_id \in DOMAIN graphs
    /\ TruthyDict(call.data) /\ "context_params" \in DOMAIN call.data
    /\ TruthyDict(call.data.context_params)
    /\ "min_relevance" \in DOMAIN call.data.context_params
    /\ PyInt(call.data.context_params.min_relevance).ok
    /\ PyInt(call.data.context_params.min_relevance).n
           > heap[graphs[call.graph_id].graph_data].relevance

\* C29: for an existing graph, a layer below the root's layer (get_graph
\* with layer) and a relevance threshold above the root's relevance
\* (filter_graph) are answered with the 404 response the same route gives
\* for a graph id that does not resolve.
C29_RootRejectionIsNotFound ==
    /\ C29_LayerBelowRoot =>
           /\ result.status = 404
           /\ result = get_graph_route(heap, graphs, connections, C29_UnresolvedId,
                                       FALSE, call.layer, TRUE).response
    /\ C29_RelevanceAboveRoot =>
           /\ result.status = 404
           /\ result = filter_graph_route(heap, graphs, C29_UnresolvedId,
                                          call.data, TRUE).response

\* A root of layer 1 asked for layer 0 has been rejected.
C29_Witness ==
    /\ C29_LayerBelowRoot
    /\ IntOfStr(call.layer.chars).n >= 0
    /\ result = ErrorResponse(404, "Graph not found")

\* A root of relevance below the threshold has been rejected.
C29_WitnessRelevance ==
    /\ C29_RelevanceAboveRoot
    /\ result = ErrorResponse(404, "Graph not found or could not be filtered")

\* The requests answered with a status.
C21_Routes == {"get_graph", "filter_graph", "get_node", "node_chat"}

\* The graph id of the last request is that of a stored graph.
C21_GraphResolves == call.graph_id \in DOMAIN graphs

\* The node id of the last request is that of a node of the stored tree.
C21_NodeResolves ==
    \E a \in NodesUnder(heap, graphs[call.graph_id].graph_data) : heap[a].id = call.node_id

\* C21: get_graph, get_node, filter_graph and chat answer 404 only when the
\* graph id or the node id does not resolve (a root rejected by a filter
\* set aside), and a request for a stored graph during which the store
\* fails is answered 500 with an error message, never 404.
C21_NotFoundIsPrecise ==
    call.name \in C21_Routes =>
        /\ (~call.ok /\ C21_GraphResolves) =>
               result.status = 500 /\ "error" \in DOMAIN result.body
        /\ result.status = 404 =>
               \/ ~C21_GraphResolves
               \/ call.name \in {"get_node", "node_chat"} /\ ~C21_NodeResolves
               \/ C29_LayerBelowRoot
               \/ C29_RelevanceAboveRoot

\* The store failed while the graph of a stored id was loaded, and the
\* request was answered 404.
C21_Witness ==
    /\ call.name \in C21_Routes
    /\ ~call.ok /\ C21_GraphResolves
    /\ result.status = 404

\* The stored graph_data of graph g, as a value.
C23_Stored(g) == TreeValue(heap, graphs[g].graph_data)

\* C23: after any sequence of get_graph, get_graph by layer, filter_graph,
\* get_node (examples generated on demand), chat and generate_quiz
\* requests, the stored graph_data of every graph is the tree its creation
\* or the latest update_graph wrote.
C23_StoredIsLastWritten ==
    \A g \in DOMAIN graphs : C23_Stored(g) = TreeValue(input, Root)

\* A filter has answered with a pruned tree, and the stored tree is whole.
C23_Witness ==
    /\ call.name \in {"get_graph", "filter_graph"}
    /\ call.graph_id \in DOMAIN graphs
    /\ result.status = 200
    /\ call.name = "get_graph" => ~call.include_connections
    /\ result.body # C23_Stored(call.graph_id)
    /\ C23_Stored(call.graph_id) = TreeValue(input, Root)

\* A node without stored examples has been answered with generated ones.
C23_WitnessExamples ==
    /\ call.name = "get_node"
    /\ result.status = 200
    /\ result.body.examples # <<>>
    /\ result.body.node.examples = <<>>
    /\ C23_StoredIsLastWritten

====
